---- MODULE Spec2Model ----
(***************************************************************************)
(* Model of the text-differencing core of dknieriem/diff_live              *)
(* (src/cmd/wasm/diff/diff_match_patch.go).                                *)
(*                                                                         *)
(* Texts are sequences of characters.  A []rune is a sequence of           *)
(* code-points and a Go string a sequence of bytes; the alphabet used here *)
(* is single-byte, so both views of a text are the same sequence and a     *)
(* byte index (strings.Index, len(string)) equals a code-point index.      *)
(* Go indices are 0-based: Go's s[i] is s[i+1] here and Go's s[lo:hi] is   *)
(* SubSeq(s, lo+1, hi).  A run-time panic (index or slice bounds out of    *)
(* range) and a loop that never ends are outcomes of a call, recorded in   *)
(* the "err" field of its result.                                          *)
(***************************************************************************)
EXTENDS Integers, Sequences, FiniteSets, TLC

VARIABLES pc, call, ret, ret2

vars == <<pc, call, ret, ret2>>

----------------------------------------------------------------------------
(* Bounds of the model *)

\* longest text handed to the affix functions and to the diff entry point
MaxText == 4
\* longest text handed to DiffHalfMatch
MaxHalf == 6
\* longest segment text and longest script handed to DiffCleanupMerge
MaxSegText == 2
MaxSegs == 3
\* iterations after which a loop of the model is cut off (never reached)
MaxFuel == 40

Alphabet == {"a", "b"}

RECURSIVE TextsOfLen(_)
TextsOfLen(n) ==
    IF n = 0 THEN {<<>>}
    ELSE {Append(t, c) : t \in TextsOfLen(n - 1), c \in Alphabet}

Texts(n) == UNION {TextsOfLen(k) : k \in 0..n}

----------------------------------------------------------------------------
(* Operation and Diff *)

DELETE == "DELETE"
INSERT == "INSERT"
EQUAL == "EQUAL"

Operation == {DELETE, INSERT, EQUAL}

Diff(type, text) == [Type |-> type, Text |-> text]

Min(a, b) == IF a < b THEN a ELSE b

MinOf(S) == CHOOSE x \in S : \A y \in S : x <= y

\* the element of a one-element set; {F(x) : x \in {e}} computes e once
Only(S) == CHOOSE x \in S : TRUE

\* Go's s[lo:hi] on a string or on a slice within its length
Slice(s, lo, hi) == SubSeq(s, lo + 1, hi)

\* strings.HasSuffix / strings.HasPrefix
HasSuffix(s, suffix) ==
    /\ Len(s) >= Len(suffix)
    /\ Slice(s, Len(s) - Len(suffix), Len(s)) = suffix

HasPrefix(s, prefix) ==
    /\ Len(s) >= Len(prefix)
    /\ Slice(s, 0, Len(prefix)) = prefix

\* strings.Index: 0-based index of the first occurrence of sub in s, or -1
Index(s, sub) ==
    LET occ == {k \in 0..(Len(s) - Len(sub)) : Slice(s, k, k + Len(sub)) = sub}
    IN IF occ = {} THEN -1 ELSE MinOf(occ)

\* outcomes of a call
Ok(diffs) == [err |-> "nil", diffs |-> diffs]
Failed(kind) == [err |-> kind, diffs |-> <<>>]

----------------------------------------------------------------------------
(* README: DiffTextSource / DiffTextResult *)

RECURSIVE DiffTextSource(_)
DiffTextSource(diffs) ==
    IF diffs = <<>> THEN <<>>
    ELSE (IF Head(diffs).Type # INSERT THEN Head(diffs).Text ELSE <<>>)
         \o DiffTextSource(Tail(diffs))

RECURSIVE DiffTextResult(_)
DiffTextResult(diffs) ==
    IF diffs = <<>> THEN <<>>
    ELSE (IF Head(diffs).Type # DELETE THEN Head(diffs).Text ELSE <<>>)
         \o DiffTextResult(Tail(diffs))

----------------------------------------------------------------------------
(* CommonAffix *)

DiffCommonPrefix(textA, textB) ==
    LET n == Min(Len(textA), Len(textB))
        differ == {i \in 0..(n - 1) : textA[i + 1] # textB[i + 1]}
    IN IF differ = {} THEN n ELSE MinOf(differ)

\* the loop runs for i = 1 .. n-1 (i < n) and compares textA[textALen-i]
\* with textB[textBLen-i]
DiffCommonSuffix(textA, textB) ==
    LET textALen == Len(textA)
        textBLen == Len(textB)
        n == Min(textALen, textBLen)
        differ == {i \in 1..(n - 1) :
                      textA[textALen - i + 1] # textB[textBLen - i + 1]}
    IN IF differ = {} THEN n ELSE MinOf(differ) - 1

DiffCommonSuffixString(textA, textB) == DiffCommonSuffix(textA, textB)

\* outcome of a call that returns a length
Length(n) == [err |-> "nil", n |-> n]
NoLength(kind) == [err |-> kind, n |-> 0]

\* the for-loop of DiffCommonOverlap; text_length == Len(textA_trunc)
RECURSIVE CommonOverlapLoop(_, _, _, _)
CommonOverlapLoop(textA_trunc, textB_trunc, best, length) ==
    LET text_length == Len(textA_trunc)
    IN IF length > text_length
       THEN NoLength("panic")     \* textA_trunc[len(textA_trunc)-length:]
       ELSE
       LET pattern == Slice(textA_trunc, text_length - length, text_length)
       IN Only({
          LET length1 == length + found
          IN IF found = -1 THEN Length(best)
             ELSE IF found = 0
                     \/ Slice(textA_trunc, text_length - length1, text_length)
                          = Slice(textB_trunc, 0, length1)
                  THEN CommonOverlapLoop(textA_trunc, textB_trunc,
                                         length1, length1 + 1)
                  ELSE CommonOverlapLoop(textA_trunc, textB_trunc,
                                         best, length1)
          : found \in {Index(textB_trunc, pattern)}})

\* a mutant of DiffCommonOverlap: the longer text is not truncated, so the
\* pattern is searched in all of textB
DiffCommonOverlapUntruncated(textA, textB) ==
    IF Len(textA) = 0 \/ Len(textB) = 0 THEN Length(0)
    ELSE IF textA = textB THEN Length(Len(textA))
    ELSE CommonOverlapLoop(textA, textB, 0, 1)

DiffCommonOverlap(textA, textB) ==
    LET textALen == Len(textA)
        textBLen == Len(textB)
        textA_trunc == IF textALen > textBLen
                       THEN Slice(textA, textALen - textBLen, textALen)
                       ELSE textA
        textB_trunc == IF textALen < textBLen
                       THEN Slice(textB, 0, textALen)
                       ELSE textB
        text_length == Min(textALen, textBLen)
    IN IF textALen = 0 \/ textBLen = 0 THEN Length(0)
       ELSE IF textA_trunc = textB_trunc THEN Length(text_length)
       ELSE CommonOverlapLoop(textA_trunc, textB_trunc, 0, 1)

----------------------------------------------------------------------------
(* HalfMatch *)

\* The five returned slices: the parts of the first text before and after
\* the common middle, those of the second text, and the common middle.  The
\* first text is longtext for DiffHalfMatchI and textA for DiffHalfMatch.
\* "No split" is five nil slices.
HalfMatch(la, lb, sa, sb, common) ==
    [err |-> "nil", text1_a |-> la, text1_b |-> lb,
     text2_a |-> sa, text2_b |-> sb, common |-> common]

NoHalfMatch == HalfMatch(<<>>, <<>>, <<>>, <<>>, <<>>)

\* The loop of DiffHalfMatchI from an iteration with search position j.
\* The next position is strings.Index over shorttext[j+1:], an index into
\* that remainder, and is used as an index into shorttext.  The next
\* position depends on j alone, so the loop never ends once a position is
\* seen twice.
RECURSIVE HalfMatchILoop(_, _, _, _, _, _, _)
HalfMatchILoop(longtext, shorttext, i, seed, j, best, seen) ==
    IF j = -1 THEN best
    ELSE IF j \in seen THEN [best EXCEPT !.err = "diverges"]
    ELSE
    LET prefixLength == DiffCommonPrefix(Slice(longtext, i, Len(longtext)),
                                         Slice(shorttext, j, Len(shorttext)))
        suffixLength == DiffCommonSuffix(Slice(longtext, 0, i),
                                         Slice(shorttext, 0, j))
        best1 == IF Len(best.common) < suffixLength + prefixLength
                 THEN HalfMatch(
                        Slice(longtext, 0, i - suffixLength),
                        Slice(longtext, i + prefixLength, Len(longtext)),
                        Slice(shorttext, 0, j - suffixLength),
                        Slice(shorttext, j + prefixLength, Len(shorttext)),
                        Slice(shorttext, j - suffixLength, j)
                          \o Slice(shorttext, j, j + prefixLength))
                 ELSE best
        next == Index(Slice(shorttext, j + 1, Len(shorttext)), seed)
    IN Only({HalfMatchILoop(longtext, shorttext, i, seed, j1, b, s)
             : j1 \in {next}, b \in {best1}, s \in {seen \cup {j}}})

\* a mutant of DiffHalfMatchI: the best match is returned whatever its length
DiffHalfMatchIUnchecked(longtext, shorttext, i) ==
    LET seed == Slice(longtext, i, i + (Len(longtext) \div 4))
    IN HalfMatchILoop(longtext, shorttext, i, seed, Index(shorttext, seed),
                      NoHalfMatch, {})

DiffHalfMatchI(longtext, shorttext, i) ==
    LET seed == Slice(longtext, i, i + (Len(longtext) \div 4))
        first == Index(shorttext, seed)     \* j = -1: shorttext[j+1:] is all
    IN Only({IF best.err # "nil" THEN best
             ELSE IF Len(best.common) * 2 >= Len(longtext) THEN best
             ELSE NoHalfMatch
             : best \in {HalfMatchILoop(longtext, shorttext, i, seed, first,
                                        NoHalfMatch, {})}})

DiffHalfMatch(Diff_Timeout, textA, textB) ==
    LET longtext == IF Len(textA) > Len(textB) THEN textA ELSE textB
        shorttext == IF Len(textA) > Len(textB) THEN textB ELSE textA
    IN IF Diff_Timeout <= 0 THEN NoHalfMatch
       ELSE IF Len(longtext) < 4 \/ Len(shorttext) * 2 < Len(longtext)
       THEN NoHalfMatch
       ELSE Only({
            IF hm1.err # "nil" THEN hm1
            ELSE IF hm2.err # "nil" THEN hm2
            ELSE IF Len(hm1.common) = 0 /\ Len(hm2.common) = 0
            THEN NoHalfMatch
            ELSE LET hm == IF Len(hm2.common) = 0 THEN hm1
                           ELSE IF Len(hm1.common) = 0 THEN hm2
                           ELSE IF Len(hm1.common) > Len(hm2.common)
                           THEN hm1 ELSE hm2
                 IN IF Len(textA) > Len(textB)
                    THEN hm
                    ELSE HalfMatch(hm.text2_a, hm.text2_b,
                                   hm.text1_a, hm.text1_b, hm.common)
            : hm1 \in {DiffHalfMatchI(longtext, shorttext,
                                      (Len(longtext) + 3) \div 4)},
              hm2 \in {DiffHalfMatchI(longtext, shorttext,
                                      (Len(longtext) + 1) \div 2)}})

----------------------------------------------------------------------------
(* Merge *)

\* append(diffs[:keep], append(records, diffs[from:]...)...)
Splice(diffs, keep, records, from) ==
    Slice(diffs, 0, keep) \o records \o Slice(diffs, from, Len(diffs))

\* the loop state of the first pass of DiffCleanupMerge
MergeState(diffs, pointer, count_delete, count_insert, text_delete, text_insert, err) ==
    [diffs |-> diffs, pointer |-> pointer,
     count_delete |-> count_delete, count_insert |-> count_insert,
     text_delete |-> text_delete, text_insert |-> text_insert, err |-> err]

\* case EQUAL with count_delete+count_insert > 1: factor the common prefix
\* and the common suffix out of the accumulated texts.  Gives the script,
\* the pointer and the two texts after the factoring, or the error.
MergeFactor(st) ==
    LET diffs == st.diffs
        pointer == st.pointer
        tempPointer == pointer - st.count_delete - st.count_insert
        prefixLength == DiffCommonPrefix(st.text_insert, st.text_delete)
        prefix == Slice(st.text_insert, 0, prefixLength)
        failed == /\ prefixLength # 0
                  /\ tempPointer > 0
                  /\ diffs[tempPointer].Type # EQUAL   \* diffs[tempPointer-1]
        diffs1 == IF prefixLength = 0 THEN diffs
                  ELSE IF tempPointer > 0
                  THEN [diffs EXCEPT ![tempPointer].Text = @ \o prefix]
                  ELSE <<Diff(EQUAL, prefix)>> \o diffs
        pointer1 == IF prefixLength # 0 /\ tempPointer <= 0
                    THEN pointer + 1 ELSE pointer
        text_insert1 == Slice(st.text_insert, prefixLength,
                              Len(st.text_insert))
        text_delete1 == Slice(st.text_delete, prefixLength,
                              Len(st.text_delete))
        suffixLength == DiffCommonSuffix(text_insert1, text_delete1)
        suffix == Slice(text_insert1, Len(text_insert1) - suffixLength,
                        Len(text_insert1))
        diffs2 == IF suffixLength = 0 THEN diffs1
                  ELSE [diffs1 EXCEPT ![pointer1 + 1].Text = suffix \o @]
        text_insert2 == Slice(text_insert1, 0,
                              Len(text_insert1) - suffixLength)
        text_delete2 == Slice(text_delete1, 0,
                              Len(text_delete1) - suffixLength)
    IN IF failed
       THEN MergeState(diffs, pointer, st.count_delete, st.count_insert,
                       st.text_delete, st.text_insert, "error")
       ELSE MergeState(diffs2, pointer1, st.count_delete, st.count_insert,
                       text_delete2, text_insert2, "nil")

\* "Insert the merged records": which records are written, and over what
MergeInsertRecords(diffs, pointer, count_delete, count_insert, text_delete, text_insert) ==
    IF Len(text_delete) = 0
    THEN Splice(diffs, pointer - count_insert,
                <<Diff(INSERT, text_insert)>>, pointer)
    ELSE IF Len(text_insert) = 0
    THEN Splice(diffs, pointer - count_delete,
                <<Diff(DELETE, text_delete)>>, pointer)
    ELSE Splice(diffs, pointer - count_delete - count_insert,
                <<Diff(INSERT, text_insert), Diff(DELETE, text_delete)>>,
                pointer)

\* one iteration of the first loop of DiffCleanupMerge (pointer < len(diffs))
MergeStep(st) ==
    LET diffs == st.diffs
        pointer == st.pointer
        this == diffs[pointer + 1]
    IN CASE this.Type = INSERT ->
              [st EXCEPT !.count_insert = @ + 1,
                         !.text_insert = @ \o this.Text,
                         !.pointer = @ + 1]
         [] this.Type = DELETE ->
              [st EXCEPT !.count_delete = @ + 1,
                         !.text_delete = @ \o this.Text,
                         !.pointer = @ + 1]
         [] this.Type = EQUAL ->
              IF st.count_delete + st.count_insert > 1
              THEN LET both_types == st.count_delete # 0 /\ st.count_insert # 0
                       f == IF both_types THEN MergeFactor(st) ELSE st
                       merged == MergeInsertRecords(f.diffs, f.pointer,
                                    f.count_delete, f.count_insert,
                                    f.text_delete, f.text_insert)
                       pointer2 == f.pointer - f.count_delete - f.count_insert
                                   + 1
                                   + (IF f.count_delete # 0 THEN 1 ELSE 0)
                                   + (IF f.count_insert # 0 THEN 1 ELSE 0)
                   IN IF f.err # "nil" THEN f
                      ELSE MergeState(merged, pointer2, 0, 0, <<>>, <<>>,
                                      "nil")
              ELSE IF pointer # 0 /\ diffs[pointer].Type = EQUAL
              THEN \* merge this equality with the previous one
                   MergeState(
                     Slice([diffs EXCEPT ![pointer].Text = @ \o this.Text],
                           0, pointer)
                       \o Slice(diffs, pointer + 1, Len(diffs)),
                     pointer, 0, 0, <<>>, <<>>, "nil")
              ELSE MergeState(diffs, pointer + 1, 0, 0, <<>>, <<>>, "nil")

RECURSIVE MergeLoop(_, _)
MergeLoop(st, fuel) ==
    IF st.err # "nil" THEN st
    ELSE IF ~(st.pointer < Len(st.diffs)) THEN st
    ELSE IF st.pointer < 0 THEN [st EXCEPT !.err = "panic"]
    ELSE IF fuel = 0 THEN [st EXCEPT !.err = "cutoff"]
    ELSE Only({MergeLoop(st1, fuel - 1) : st1 \in {MergeStep(st)}})

\* the loop state of the second pass
ShiftState(diffs, pointer, changes) ==
    [diffs |-> diffs, pointer |-> pointer, changes |-> changes]

\* one iteration of the second loop (pointer < len(diffs)-1)
ShiftStep(st) ==
    LET diffs == st.diffs
        pointer == st.pointer
        prev == diffs[pointer]          \* diffs[pointer-1]
        this == diffs[pointer + 1]      \* diffs[pointer]
        next == diffs[pointer + 2]      \* diffs[pointer+1]
    IN IF prev.Type = EQUAL /\ next.Type = EQUAL
       THEN IF HasSuffix(this.Text, prev.Text)
            THEN \* shift the edit over the previous equality
                 LET d1 == [diffs EXCEPT
                              ![pointer + 1].Text =
                                 prev.Text \o Slice(this.Text, 0,
                                    Len(this.Text) - Len(prev.Text)),
                              ![pointer + 2].Text = prev.Text \o next.Text]
                 IN ShiftState(Slice(d1, 0, pointer - 1)
                                 \o Slice(d1, pointer, Len(d1)),
                               pointer + 1, TRUE)
            ELSE IF HasPrefix(this.Text, next.Text)
            THEN \* shift the edit over the next equality
                 LET d1 == [diffs EXCEPT
                              ![pointer].Text = prev.Text \o next.Text,
                              ![pointer + 1].Text =
                                 Slice(this.Text, Len(next.Text),
                                       Len(this.Text)) \o next.Text]
                 IN ShiftState(Slice(d1, 0, pointer + 1)
                                 \o Slice(d1, pointer + 2, Len(d1)),
                               pointer + 1, TRUE)
            ELSE ShiftState(diffs, pointer + 1, st.changes)
       ELSE ShiftState(diffs, pointer + 1, st.changes)

RECURSIVE ShiftLoop(_)
ShiftLoop(st) ==
    IF st.pointer < Len(st.diffs) - 1
    THEN Only({ShiftLoop(st1) : st1 \in {ShiftStep(st)}})
    ELSE st

RECURSIVE MergeRun(_, _)

\* the end of DiffCleanupMerge: "if changes" reruns it on the shifted script
MergeRerun(second, depth) ==
    IF ~second.changes THEN Ok(second.diffs)
    ELSE IF depth = 0 THEN Failed("cutoff")
    ELSE Only({
         \* "_, diffs = dmp.DiffCleanupMerge(diffs)": the error of the rerun
         \* is dropped and its nil script returned with a nil error
         IF again.err = "error" THEN Ok(<<>>) ELSE again
         : again \in {MergeRun(second.diffs, depth - 1)}})

\* DiffCleanupMerge from the end of its first loop: the empty record at the
\* end is removed and the second loop runs
MergeShift(first, depth) ==
    LET n == Len(first.diffs)
        trimmed == IF Len(first.diffs[n].Text) = 0
                   THEN Slice(first.diffs, 0, n - 1)
                   ELSE first.diffs
    IN IF first.err # "nil" THEN Failed(first.err)
       ELSE IF n = 0 THEN Failed("panic")     \* diffs[len(diffs)-1]
       ELSE Only({MergeRerun(second, depth)
                  : second \in {ShiftLoop(ShiftState(trimmed, 1, FALSE))}})

\* DiffCleanupMerge; depth bounds the reruns after a shift
MergeRun(input, depth) ==
    Only({MergeShift(first, depth)
          : first \in {MergeLoop(MergeState(Append(input, Diff(EQUAL, <<>>)),
                                            0, 0, 0, <<>>, <<>>, "nil"),
                                 MaxFuel)}})

DiffCleanupMerge(diffs) == MergeRun(diffs, MaxFuel)

----------------------------------------------------------------------------
(* Driver *)

RECURSIVE DiffMainDeadline(_, _, _, _)

\* DiffCompute.  Past the two returns at its top both texts are empty, so
\* strings.Index finds the shorter text at 0 and the containment branch
\* returns: no call reaches the code after it.  The outcome "real diff"
\* names the hand-over to DiffLineMode / DiffBisect_ at its end.
DiffCompute(Diff_Timeout, textA, textB, checklines) ==
    LET longtext == IF Len(textA) > Len(textB) THEN textA ELSE textB
        shorttext == IF Len(textA) > Len(textB) THEN textB ELSE textA
        foundTextIndex == Index(longtext, shorttext)
        op == IF Len(textA) > Len(textB) THEN DELETE ELSE INSERT
    IN IF Len(textA) > 0 THEN Ok(<<Diff(INSERT, textB)>>)
       ELSE IF Len(textB) > 0 THEN Ok(<<Diff(DELETE, textA)>>)
       ELSE IF foundTextIndex # -1
       THEN Ok(<<Diff(op, Slice(longtext, 0, foundTextIndex)),
                 Diff(EQUAL, shorttext),
                 Diff(op, Slice(longtext, foundTextIndex + Len(shorttext),
                                Len(longtext)))>>)
       ELSE IF Len(shorttext) = 1
       THEN Ok(<<Diff(DELETE, textA), Diff(INSERT, textB)>>)
       ELSE Only({
            IF hm.err # "nil" THEN Failed(hm.err)
            ELSE IF Len(hm.text1_a) > 0               \* len(textA_1) > 0
            THEN Only({
                 IF diffs_a.err # "nil" THEN diffs_a
                 ELSE IF diffs_b.err # "nil" THEN diffs_b
                 ELSE Ok(diffs_a.diffs \o <<Diff(EQUAL, hm.common)>>
                           \o diffs_b.diffs)
                 : diffs_a \in {DiffMainDeadline(Diff_Timeout, hm.text1_a,
                                                 hm.text2_a, checklines)},
                   diffs_b \in {DiffMainDeadline(Diff_Timeout, hm.text1_b,
                                                 hm.text2_b, checklines)}})
            ELSE Failed("real diff")
            : hm \in {DiffHalfMatch(Diff_Timeout, textA, textB)}})

\* a mutant of EqualDiffs: the equality is appended whatever its length
EqualDiffsUnguarded(inputA) == <<Diff(EQUAL, inputA)>>

\* the script of the equality check at the top of DiffMainDeadline
EqualDiffs(inputA) ==
    IF Len(inputA) > 0 THEN <<Diff(EQUAL, inputA)>> ELSE <<>>

\* DiffMainDeadline.  The suffix is cut at len(inputA)-commonLength, an
\* index into inputA, out of textChoppedA, which is shorter by the prefix.
DiffMainDeadline(Diff_Timeout, inputA, inputB, checklines) ==
    LET prefixLength == DiffCommonPrefix(inputA, inputB)
        commonPrefix == Slice(inputA, 0, prefixLength)
        choppedA == Slice(inputA, prefixLength, Len(inputA))
        choppedB == Slice(inputB, prefixLength, Len(inputB))
        suffixLength == DiffCommonSuffix(choppedA, choppedB)
        cutA == Len(inputA) - suffixLength
        cutB == Len(inputB) - suffixLength
        commonSuffix == Slice(choppedA, cutA, Len(choppedA))
        textChoppedA == Slice(choppedA, 0, cutA)
        textChoppedB == Slice(choppedB, 0, cutB)
    IN IF inputA = inputB THEN Ok(EqualDiffs(inputA))
       \* textChoppedA[len(inputA)-commonLength:] needs the index within
       \* len(textChoppedA); once it is, the two slices after it are in range
       ELSE IF cutA > Len(choppedA) THEN Failed("panic")
       ELSE Only({
            IF computed.err # "nil" THEN computed
            ELSE LET withPrefix ==
                       IF Len(commonPrefix) > 0
                       THEN <<Diff(EQUAL, commonPrefix)>> \o computed.diffs
                       ELSE computed.diffs
                     withSuffix ==
                       IF Len(commonSuffix) > 0
                       THEN Append(withPrefix, Diff(EQUAL, commonSuffix))
                       ELSE withPrefix
                 \* "_, diffs = dmp.DiffCleanupMerge(diffs)" then
                 \* "return nil, diffs"
                 IN Only({IF merged.err = "error" THEN Ok(<<>>) ELSE merged
                          : merged \in {DiffCleanupMerge(input)
                                        : input \in {withSuffix}}})
            : computed \in {DiffCompute(Diff_Timeout, textChoppedA,
                                        textChoppedB, checklines)}})

DiffMain(Diff_Timeout, inputA, inputB, checklines) ==
    DiffMainDeadline(Diff_Timeout, inputA, inputB, checklines)

DiffRecurse(Diff_Timeout, inputA, inputB) ==
    DiffMain(Diff_Timeout, inputA, inputB, TRUE)

----------------------------------------------------------------------------
(* Calls.  A behaviour is one call of a function of the package on inputs  *)
(* drawn by the initial state; "ret" holds what the call returned.         *)

Pending == [err |-> "pending"]

\* the Diff_Timeout of New() (time.Second) and of new(DiffMatchPatch) (0)
Timeouts == {0, 1}

Segments == {Diff(type, text) : type \in Operation, text \in Texts(MaxSegText)}

RECURSIVE ScriptsOfLen(_)
ScriptsOfLen(n) ==
    IF n = 0 THEN {<<>>}
    ELSE {Append(s, d) : s \in ScriptsOfLen(n - 1), d \in Segments}

Scripts == UNION {ScriptsOfLen(k) : k \in 0..MaxSegs}

Start(calls) ==
    /\ pc = "ready"
    /\ call \in calls
    /\ ret = Pending
    /\ ret2 = Pending

Return(value) ==
    /\ pc' = "done"
    /\ ret' = value
    /\ UNCHANGED <<call, ret2>>

(* CommonAffix *)

AffixCalls ==
    {[fn |-> fn, textA |-> a, textB |-> b] :
        fn \in {"DiffCommonPrefix", "DiffCommonSuffix", "DiffCommonOverlap"},
        a \in Texts(MaxText), b \in Texts(MaxText)}

CallDiffCommonPrefix ==
    /\ pc = "ready"
    /\ call.fn = "DiffCommonPrefix"
    /\ Return(Length(DiffCommonPrefix(call.textA, call.textB)))

CallDiffCommonSuffix ==
    /\ pc = "ready"
    /\ call.fn = "DiffCommonSuffix"
    /\ Return(Length(DiffCommonSuffix(call.textA, call.textB)))

CallDiffCommonOverlap ==
    /\ pc = "ready"
    /\ call.fn = "DiffCommonOverlap"
    /\ Return(DiffCommonOverlap(call.textA, call.textB))

InitAffix == Start(AffixCalls)

NextAffix ==
    \/ CallDiffCommonPrefix
    \/ CallDiffCommonSuffix
    \/ CallDiffCommonOverlap

SpecAffix == InitAffix /\ [][NextAffix]_vars

(* HalfMatch *)

HalfCalls ==
    {[fn |-> "DiffHalfMatch", Diff_Timeout |-> t, textA |-> a, textB |-> b] :
        t \in Timeouts, a \in Texts(MaxHalf), b \in Texts(MaxHalf)}

CallDiffHalfMatch ==
    /\ pc = "ready"
    /\ call.fn = "DiffHalfMatch"
    /\ Return(DiffHalfMatch(call.Diff_Timeout, call.textA, call.textB))

InitHalf == Start(HalfCalls)

NextHalf == CallDiffHalfMatch

SpecHalf == InitHalf /\ [][NextHalf]_vars

(* Merge: a call on a script, and a second call on what the first returned *)

MergeCalls == {[fn |-> "DiffCleanupMerge", diffs |-> s] : s \in Scripts}

CallDiffCleanupMerge ==
    /\ pc = "ready"
    /\ call.fn = "DiffCleanupMerge"
    /\ Return(DiffCleanupMerge(call.diffs))

CallDiffCleanupMergeAgain ==
    /\ pc = "done"
    /\ call.fn = "DiffCleanupMerge"
    /\ ret.err = "nil"
    /\ pc' = "again"
    /\ ret2' = DiffCleanupMerge(ret.diffs)
    /\ UNCHANGED <<call, ret>>

InitMerge == Start(MergeCalls)

NextMerge ==
    \/ CallDiffCleanupMerge
    \/ CallDiffCleanupMergeAgain

SpecMerge == InitMerge /\ [][NextMerge]_vars

(* Driver: the diff entry points *)

DiffCalls ==
    {[fn |-> "DiffRecurse", Diff_Timeout |-> t, inputA |-> a, inputB |-> b,
      checklines |-> TRUE] :
        t \in Timeouts, a \in Texts(MaxText), b \in Texts(MaxText)}
    \cup
    {[fn |-> "DiffMain", Diff_Timeout |-> t, inputA |-> a, inputB |-> b,
      checklines |-> c] :
        t \in Timeouts, a \in Texts(MaxText), b \in Texts(MaxText),
        c \in BOOLEAN}

CallDiffRecurse ==
    /\ pc = "ready"
    /\ call.fn = "DiffRecurse"
    /\ Return(DiffRecurse(call.Diff_Timeout, call.inputA, call.inputB))

CallDiffMain ==
    /\ pc = "ready"
    /\ call.fn = "DiffMain"
    /\ Return(DiffMain(call.Diff_Timeout, call.inputA, call.inputB,
                       call.checklines))

InitDiff == Start(DiffCalls)

NextDiff ==
    \/ CallDiffRecurse
    \/ CallDiffMain

SpecDiff == InitDiff /\ [][NextDiff]_vars

----------------------------------------------------------------------------
(* Properties *)

Returned == pc = "done" /\ ret.err = "nil"

DiffCall == call.fn \in {"DiffRecurse", "DiffMain"}

\* The loops of DiffCleanupMerge end within the cut-off of the model, and no
\* call reaches the end of DiffCompute.
NoCutoff == pc # "ready" => ret.err \notin {"cutoff", "real diff"}
NoCutoffAgain == pc = "again" => ret2.err \notin {"cutoff", "real diff"}

\* C1: the script a diff entry point returns for A and B round-trips:
\* the texts of its non-INSERT segments, in order, make A and the texts of
\* its non-DELETE segments make B.
RoundTrip ==
    (Returned /\ DiffCall) =>
        /\ DiffTextSource(ret.diffs) = call.inputA
        /\ DiffTextResult(ret.diffs) = call.inputB

\* C2: for a non-empty text s, the diff of "" and s is [INSERT s] and the
\* diff of s and "" is [DELETE s].
EmptyShortcut ==
    (pc = "done" /\ DiffCall) =>
        /\ (call.inputA = <<>> /\ call.inputB # <<>>)
              => ret = Ok(<<Diff(INSERT, call.inputB)>>)
        /\ (call.inputB = <<>> /\ call.inputA # <<>>)
              => ret = Ok(<<Diff(DELETE, call.inputA)>>)

\* C3: the diff of a text s with itself is [EQUAL s] when s is non-empty
\* and the empty script when s is empty, returned with no error.
EqualityShortcut ==
    (pc = "done" /\ DiffCall /\ call.inputA = call.inputB) =>
        ret = Ok(IF call.inputA # <<>>
                 THEN <<Diff(EQUAL, call.inputA)>> ELSE <<>>)

\* C3 happens: a diff of a non-empty text with itself has returned.
EqualityShortcutWitness ==
    /\ pc = "done"
    /\ DiffCall
    /\ call.inputA = call.inputB
    /\ Len(call.inputA) = 2
    /\ ret.diffs = <<Diff(EQUAL, call.inputA)>>

MergeCall == call.fn = "DiffCleanupMerge"

IsEdit(d) == d.Type \in {DELETE, INSERT}

\* the last n characters of textA are the first n characters of textB
IsOverlap(n, textA, textB) ==
    /\ n <= Len(textA)
    /\ n <= Len(textB)
    /\ \A k \in 1..n : textA[Len(textA) - n + k] = textB[k]

\* the first / last n characters of textA and textB are the same
IsCommonPrefix(n, textA, textB) ==
    /\ n <= Len(textA)
    /\ n <= Len(textB)
    /\ \A k \in 1..n : textA[k] = textB[k]

IsCommonSuffix(n, textA, textB) ==
    /\ n <= Len(textA)
    /\ n <= Len(textB)
    /\ \A k \in 1..n : textA[Len(textA) - n + k] = textB[Len(textB) - n + k]

\* a normalized script (spec, section 3)
Normalized(diffs) ==
    /\ \A i \in 1..(Len(diffs) - 1) : diffs[i].Type # diffs[i + 1].Type
    /\ \A i \in 1..Len(diffs) :
          diffs[i].Type = EQUAL => diffs[i].Text # <<>>
    /\ \A i \in 1..(Len(diffs) - 1) :
          (IsEdit(diffs[i]) /\ IsEdit(diffs[i + 1])
             /\ diffs[i].Type # diffs[i + 1].Type)
          => /\ ~IsCommonPrefix(1, diffs[i].Text, diffs[i + 1].Text)
             /\ ~IsCommonSuffix(1, diffs[i].Text, diffs[i + 1].Text)

\* C4: the script DiffCleanupMerge returns is normalized: no two adjacent
\* segments have the same op, no EQUAL segment has an empty text, and no
\* adjacent DELETE/INSERT pair shares a non-empty common prefix or suffix.
MergeNormalizes == (Returned /\ MergeCall) => Normalized(ret.diffs)

\* C5: DiffCleanupMerge keeps both projections of its input: the source
\* text and the target text of the returned script are those of the input.
MergePreservesTexts ==
    (Returned /\ MergeCall) =>
        /\ DiffTextSource(ret.diffs) = DiffTextSource(call.diffs)
        /\ DiffTextResult(ret.diffs) = DiffTextResult(call.diffs)

\* C6: DiffCleanupMerge replaces a run of DELETE/INSERT segments by at most
\* two segments, the DELETE first and the INSERT second, and emits no
\* segment with an empty text: in the script returned for an input whose
\* texts are all non-empty, every edit has a non-empty text and an edit that
\* follows an edit is an INSERT following a DELETE.
MergeCoalescingOrder ==
    (Returned /\ MergeCall
       /\ \A i \in 1..Len(call.diffs) : call.diffs[i].Text # <<>>) =>
        /\ \A i \in 1..Len(ret.diffs) :
              IsEdit(ret.diffs[i]) => ret.diffs[i].Text # <<>>
        /\ \A i \in 1..(Len(ret.diffs) - 1) :
              (IsEdit(ret.diffs[i]) /\ IsEdit(ret.diffs[i + 1]))
              => (ret.diffs[i].Type = DELETE
                    /\ ret.diffs[i + 1].Type = INSERT)

\* C7: DiffCleanupMerge is idempotent: a second call, on the script the
\* first call returned, returns that script.
MergeIdempotent == (pc = "again" /\ MergeCall) => ret2 = ret

\* C8: DiffCommonSuffix(A, B) is the greatest n such that the last n
\* code-points of A are the last n code-points of B.
CommonSuffixGreatest ==
    (pc = "done" /\ call.fn = "DiffCommonSuffix") =>
        /\ ret.err = "nil"
        /\ IsCommonSuffix(ret.n, call.textA, call.textB)
        /\ ~IsCommonSuffix(ret.n + 1, call.textA, call.textB)

\* C9: DiffCommonOverlap(A, B) returns the greatest n such that the last n
\* characters of A are the first n characters of B (0 when either text is
\* empty), and it returns for every input.
CommonOverlapGreatest ==
    (pc = "done" /\ call.fn = "DiffCommonOverlap") =>
        /\ ret.err = "nil"
        /\ IsOverlap(ret.n, call.textA, call.textB)
        /\ \A n \in (ret.n + 1)..Len(call.textA) :
              ~IsOverlap(n, call.textA, call.textB)
        /\ (call.textA = <<>> \/ call.textB = <<>>) => ret.n = 0

\* C9 happens: an overlap shorter than both texts was found by the search
\* loop, after the longer text was truncated.
CommonOverlapWitness ==
    /\ pc = "done"
    /\ call.fn = "DiffCommonOverlap"
    /\ Len(call.textA) > Len(call.textB)
    /\ ret.err = "nil"
    /\ ret.n = 2
    /\ ret.n < Len(call.textB)

\* C10: a split returned by DiffHalfMatch decomposes both texts:
\* A_before + common_mid + A_after is A and B_before + common_mid + B_after
\* is B.
HalfMatchDecomposes ==
    (Returned /\ call.fn = "DiffHalfMatch" /\ ret.common # <<>>) =>
        /\ ret.text1_a \o ret.common \o ret.text1_b = call.textA
        /\ ret.text2_a \o ret.common \o ret.text2_b = call.textB

HalfCall == call.fn = "DiffHalfMatch"

LongerLen(textA, textB) ==
    IF Len(textA) > Len(textB) THEN Len(textA) ELSE Len(textB)

ShorterLen(textA, textB) ==
    IF Len(textA) > Len(textB) THEN Len(textB) ELSE Len(textA)

\* C11: DiffHalfMatch returns no split when Diff_Timeout is 0, when the
\* longer text has fewer than 4 code-points or when twice the length of the
\* shorter text is less than the length of the longer; and the common
\* middle of a split it returns is at least half the longer text.
HalfMatchRefused ==
    (Returned /\ HalfCall) =>
        LET long == LongerLen(call.textA, call.textB)
            short == ShorterLen(call.textA, call.textB)
        IN /\ (call.Diff_Timeout = 0 \/ long < 4 \/ short * 2 < long)
                 => ret = NoHalfMatch
           /\ ret # NoHalfMatch => 2 * Len(ret.common) >= long

\* a call with Diff_Timeout 0 on texts that have a half-match
HalfMatchRefusedWitness ==
    /\ Returned
    /\ HalfCall
    /\ call.Diff_Timeout = 0
    /\ ret = NoHalfMatch
    /\ DiffHalfMatch(1, call.textA, call.textB).common # <<>>

----------------------------------------------------------------------------
(* Line encoding: DiffLinesToChars / DiffLinesToCharsMunge /               *)
(* DiffCharsToLines                                                        *)

MaxLineText == 4
MaxSymbols == 2

LF == "\n"

LineAlphabet == {"a", "b", LF}

RECURSIVE LineTextsOfLen(_)
LineTextsOfLen(n) ==
    IF n = 0 THEN {<<>>}
    ELSE {Append(t, c) : t \in LineTextsOfLen(n - 1), c \in LineAlphabet}

LineTexts == UNION {LineTextsOfLen(k) : k \in 0..MaxLineText}

\* the map lineHash: a function from the lines seen so far to their index
EmptyHash == [line \in {} |-> 0]

HashPut(lineHash, line, value) ==
    [l \in DOMAIN lineHash \cup {line} |->
        IF l = line THEN value ELSE lineHash[l]]

\* the loop state of DiffLinesToCharsMunge.  lineArray is the slice header
\* the function received by value: the caller does not see what is appended
\* to it.  lineHash is a map, which the caller shares.
MungeState(lineStart, lineEnd, chars, lineArray, lineHash, err) ==
    [lineStart |-> lineStart, lineEnd |-> lineEnd, chars |-> chars,
     lineArray |-> lineArray, lineHash |-> lineHash, err |-> err]

\* one iteration of the loop of DiffLinesToCharsMunge.  strings.Index gives
\* an index into text[lineStart:], which is taken as an index into text.
MungeStep(text, st) ==
    LET found == Index(Slice(text, st.lineStart, Len(text)), <<LF>>)
        lineEnd == IF found = -1 THEN Len(text) - 1 ELSE found
    IN IF lineEnd + 1 < st.lineStart
       THEN [st EXCEPT !.err = "panic"]      \* text[lineStart : lineEnd+1]
       ELSE
       LET line == Slice(text, st.lineStart, lineEnd + 1)
       IN IF line \in DOMAIN st.lineHash
          THEN MungeState(lineEnd + 1, lineEnd,
                          Append(st.chars, st.lineHash[line]),
                          st.lineArray, st.lineHash, "nil")
          ELSE MungeState(lineEnd + 1, lineEnd,
                          Append(st.chars, Len(st.lineArray)),
                          Append(st.lineArray, line),
                          HashPut(st.lineHash, line, Len(st.lineArray)),
                          "nil")

\* The loop of DiffLinesToCharsMunge.  Where the walk goes from lineStart
\* depends on lineStart alone, so the loop never ends once an iteration
\* starts where an earlier one did.
RECURSIVE MungeLoop(_, _, _)
MungeLoop(text, st, seen) ==
    IF st.err # "nil" THEN st
    ELSE IF ~(st.lineEnd < Len(text) - 1) THEN st
    ELSE IF st.lineStart \in seen THEN [st EXCEPT !.err = "diverges"]
    ELSE Only({MungeLoop(text, st1, seen \cup {st.lineStart})
               : st1 \in {MungeStep(text, st)}})

DiffLinesToCharsMunge(text, lineArray, lineHash) ==
    MungeLoop(text, MungeState(0, -1, <<>>, lineArray, lineHash, "nil"), {})

\* outcome of DiffLinesToChars
Encoded(err, chars1, chars2, lineArray) ==
    [err |-> err, chars1 |-> chars1, chars2 |-> chars2,
     lineArray |-> lineArray]

\* DiffLinesToChars: both calls receive the one-entry lineArray, and it is
\* that lineArray which is returned
DiffLinesToChars(textA, textB) ==
    LET lineArray == << <<>> >>
    IN Only({
       IF m1.err # "nil" THEN Encoded(m1.err, <<>>, <<>>, <<>>)
       ELSE Only({
            IF m2.err # "nil" THEN Encoded(m2.err, <<>>, <<>>, <<>>)
            ELSE Encoded("nil", m1.chars, m2.chars, lineArray)
            : m2 \in {DiffLinesToCharsMunge(textB, lineArray, m1.lineHash)}})
       : m1 \in {DiffLinesToCharsMunge(textA, lineArray, EmptyHash)}})

\* string(rune): the UTF-8 bytes of a code point below 0xD800
Utf8Rune(r) ==
    IF r < 128 THEN <<r>>
    ELSE IF r < 2048 THEN <<192 + (r \div 64), 128 + (r % 64)>>
    ELSE <<224 + (r \div 4096), 128 + ((r \div 64) % 64), 128 + (r % 64)>>

\* string([]rune)
RECURSIVE Utf8(_)
Utf8(runes) ==
    IF runes = <<>> THEN <<>>
    ELSE Utf8Rune(Head(runes)) \o Utf8(Tail(runes))

\* outcome of a step that gives a text
Text(text) == [err |-> "nil", text |-> text]
NoText(kind) == [err |-> kind, text |-> <<>>]

\* strings.Join(text, "") over text[y] = lineArray[uint32(diff.Text[y])],
\* y running over the bytes of diff.Text
RECURSIVE JoinLines(_, _)
JoinLines(bytes, lineArray) ==
    IF bytes = <<>> THEN Text(<<>>)
    ELSE IF Head(bytes) >= Len(lineArray) THEN NoText("panic")
    ELSE Only({IF rest.err # "nil" THEN rest
               ELSE Text(lineArray[Head(bytes) + 1] \o rest.text)
               : rest \in {JoinLines(Tail(bytes), lineArray)}})

RECURSIVE CharsToLinesLoop(_, _)
CharsToLinesLoop(diffs, lineArray) ==
    IF diffs = <<>> THEN Ok(<<>>)
    ELSE Only({
         IF joined.err # "nil" THEN Failed(joined.err)
         ELSE IF rest.err # "nil" THEN rest
         ELSE Ok(<<Diff(Head(diffs).Type, joined.text)>> \o rest.diffs)
         : joined \in {JoinLines(Head(diffs).Text, lineArray)},
           rest \in {CharsToLinesLoop(Tail(diffs), lineArray)}})

DiffCharsToLines(diffs, lineArray) == CharsToLinesLoop(diffs, lineArray)

(* Calls of the line encoding *)

MaxCodedSegs == 2

\* the line tables of TestDiffCharsToLines: the empty entry and then n lines,
\* the k-th of which is written <<k>>; n is 2 or 300
LineCounts == {2, 300}

LineTable(n) == [k \in 1..(n + 1) |-> IF k = 1 THEN <<>> ELSE <<k - 1>>]

\* symbols of a table of n lines: the first, the last below 0x80, the first
\* that takes two bytes, and the last
SymbolsOf(n) == {r \in {1, 2, 127, 128, 300} : r <= n}

RECURSIVE SymbolStringsOfLen(_, _)
SymbolStringsOfLen(n, len) ==
    IF len = 0 THEN {<<>>}
    ELSE {Append(t, r) : t \in SymbolStringsOfLen(n, len - 1),
                         r \in SymbolsOf(n)}

SymbolStrings(n) == UNION {SymbolStringsOfLen(n, k) : k \in 0..MaxSymbols}

\* a script over symbol strings: runes holds the symbols of each segment
\* and diffs the script itself, whose texts are their strings
RECURSIVE CodedScriptsOfLen(_, _)
CodedScriptsOfLen(n, len) ==
    IF len = 0 THEN {<<>>}
    ELSE {Append(s, [Type |-> type, Runes |-> t]) :
             s \in CodedScriptsOfLen(n, len - 1),
             type \in Operation, t \in SymbolStrings(n)}

CodedScripts(n) == UNION {CodedScriptsOfLen(n, k) : k \in 1..MaxCodedSegs}

LinesCalls ==
    {[fn |-> "DiffLinesToChars", textA |-> a, textB |-> b] :
        a \in LineTexts, b \in LineTexts}
    \cup
    UNION {{[fn |-> "DiffCharsToLines", lines |-> n, coded |-> s] :
              s \in CodedScripts(n)} : n \in LineCounts}

\* the []Diff handed to DiffCharsToLines: each Text is string(runes)
CodedDiffs(coded) ==
    [k \in 1..Len(coded) |-> Diff(coded[k].Type, Utf8(coded[k].Runes))]

CallDiffLinesToChars ==
    /\ pc = "ready"
    /\ call.fn = "DiffLinesToChars"
    /\ Return(DiffLinesToChars(call.textA, call.textB))

CallDiffCharsToLines ==
    /\ pc = "ready"
    /\ call.fn = "DiffCharsToLines"
    /\ Return(DiffCharsToLines(CodedDiffs(call.coded), LineTable(call.lines)))

InitLines == Start(LinesCalls)

NextLines == CallDiffLinesToChars \/ CallDiffCharsToLines

SpecLines == InitLines /\ [][NextLines]_vars

(* Properties of the line encoding *)

\* the concatenation of the lines of table (with entry 0 first) that the
\* symbols name
RECURSIVE Decode(_, _)
Decode(symbols, table) ==
    IF symbols = <<>> THEN <<>>
    ELSE table[Head(symbols) + 1] \o Decode(Tail(symbols), table)

InTable(symbols, table) ==
    \A k \in 1..Len(symbols) : symbols[k] \in 0..(Len(table) - 1)

\* the script that decoding gives: each segment keeps its op
Decoded(coded, table) ==
    [k \in 1..Len(coded) |-> Diff(coded[k].Type, Decode(coded[k].Runes, table))]

\* C12: the line encoding is invertible: the symbols DiffLinesToChars gives
\* for A and for B, replaced by their table lines, give A and B; and
\* DiffCharsToLines maps each segment's symbol string to the concatenation
\* of the lines it names and keeps the segment's op, also for tables of more
\* than 256 lines.
LineEncodingInvertible ==
    /\ (pc = "done" /\ call.fn = "DiffLinesToChars") =>
          /\ ret.err = "nil"
          /\ InTable(ret.chars1, ret.lineArray)
          /\ InTable(ret.chars2, ret.lineArray)
          /\ Decode(ret.chars1, ret.lineArray) = call.textA
          /\ Decode(ret.chars2, ret.lineArray) = call.textB
    /\ (pc = "done" /\ call.fn = "DiffCharsToLines") =>
          /\ ret.err = "nil"
          /\ ret.diffs = Decoded(call.coded, LineTable(call.lines))

\* the lines of a text: up to and including each LF, and what is left after
\* the last LF as a line of its own
RECURSIVE SplitLines(_)
SplitLines(text) ==
    IF text = <<>> THEN <<>>
    ELSE LET found == Index(text, <<LF>>)
         IN IF found = -1 THEN <<text>>
            ELSE <<Slice(text, 0, found + 1)>>
                 \o SplitLines(Slice(text, found + 1, Len(text)))

\* the elements of a sequence in order of first appearance
RECURSIVE Distinct(_)
Distinct(lines) ==
    IF lines = <<>> THEN <<>>
    ELSE LET front == Distinct(Slice(lines, 0, Len(lines) - 1))
             last == lines[Len(lines)]
         IN IF \E k \in 1..Len(front) : front[k] = last
            THEN front ELSE Append(front, last)

\* the 0-based index of a line in a table that holds it
IndexOfLine(table, line) ==
    (CHOOSE k \in 1..Len(table) : table[k] = line) - 1

SymbolsIn(table, text) ==
    LET lines == SplitLines(text)
    IN [k \in 1..Len(lines) |-> IndexOfLine(table, lines[k])]

TableOf(textA, textB) ==
    << <<>> >> \o Distinct(SplitLines(textA) \o SplitLines(textB))

\* C13: DiffLinesToChars returns the table whose entry 0 is the empty line
\* and whose further entries are the distinct lines of A and then the new
\* lines of B in order of first appearance, and each symbol is the table
\* index of its line.
LineTableAssigned ==
    (pc = "done" /\ call.fn = "DiffLinesToChars") =>
        LET table == TableOf(call.textA, call.textB)
        IN /\ ret.err = "nil"
           /\ ret.lineArray = table
           /\ ret.chars1 = SymbolsIn(table, call.textA)
           /\ ret.chars2 = SymbolsIn(table, call.textB)

----------------------------------------------------------------------------
(* DiffCleanupSemanticScore / DiffCleanupSemanticLossless *)

\* the characters of the model's texts that [^a-zA-Z0-9] does not match
AlphaNumerics ==
    {"a", "b", "c", "d", "e", "f", "g", "h", "i", "j", "k", "l", "m", "n",
     "o", "p", "q", "r", "s", "t", "u", "v", "w", "x", "y", "z",
     "A", "B", "C", "D", "E", "F", "G", "H", "I", "J", "K", "L", "M", "N",
     "O", "P", "Q", "R", "S", "T", "U", "V", "W", "X", "Y", "Z",
     "0", "1", "2", "3", "4", "5", "6", "7", "8", "9"}

CR == "\r"

\* the characters \s matches, and those [\r\n] matches
Whitespaces == {" ", "\t", "\f", CR, LF}
Linebreaks == {CR, LF}

\* blanklineEndRegex, \n\r?\n$
BlanklineEnd(text) ==
    \/ HasSuffix(text, <<LF, LF>>)
    \/ HasSuffix(text, <<LF, CR, LF>>)

\* DiffCleanupSemanticScore of two non-empty texts: blanklineEndRegex is
\* matched against both
ScoreOfBoundary(one, two) ==
    LET char1 == one[Len(one)]
        char2 == two[1]
        nonAlphaNumeric1 == char1 \notin AlphaNumerics
        nonAlphaNumeric2 == char2 \notin AlphaNumerics
        whitespace1 == nonAlphaNumeric1 /\ char1 \in Whitespaces
        whitespace2 == nonAlphaNumeric2 /\ char2 \in Whitespaces
        lineBreak1 == whitespace1 /\ char1 \in Linebreaks
        lineBreak2 == whitespace2 /\ char2 \in Linebreaks
        blankLine1 == lineBreak1 /\ BlanklineEnd(one)
        blankLine2 == lineBreak2 /\ BlanklineEnd(two)
    IN IF blankLine1 \/ blankLine2 THEN 5
       ELSE IF lineBreak1 \/ lineBreak2 THEN 4
       ELSE IF nonAlphaNumeric1 /\ ~whitespace1 /\ whitespace2 THEN 3
       ELSE IF whitespace1 \/ whitespace2 THEN 2
       ELSE IF nonAlphaNumeric1 \/ nonAlphaNumeric2 THEN 1
       ELSE 0

DiffCleanupSemanticScore(one, two) ==
    IF Len(one) = 0 \/ Len(two) = 0 THEN 6 ELSE ScoreOfBoundary(one, two)

\* a position of the edit between its two equalities, with its score
Slide(equality1, edit, equality2) ==
    [equality1 |-> equality1, edit |-> edit, equality2 |-> equality2,
     score |-> DiffCleanupSemanticScore(equality1, edit)
                 + DiffCleanupSemanticScore(edit, equality2)]

\* "shift the edit as far left as possible"
SlideLeft(equality1, edit, equality2) ==
    LET commonOffset == DiffCommonSuffixString(equality1, edit)
        commonString == Slice(edit, Len(edit) - commonOffset, Len(edit))
    IN IF commonOffset > 0
       THEN Slide(Slice(equality1, 0, Len(equality1) - commonOffset),
                  commonString \o Slice(edit, 0, Len(edit) - commonOffset),
                  commonString \o equality2)
       ELSE Slide(equality1, edit, equality2)

\* "step character by character right, looking for the best fit"; the
\* characters of the model are one byte each (sz = 1)
RECURSIVE SlideRight(_, _)
SlideRight(cur, best) ==
    IF /\ Len(cur.edit) # 0
       /\ Len(cur.equality2) # 0
       /\ cur.edit[1] = cur.equality2[1]
    THEN Only({SlideRight(next, IF next.score >= best.score
                                THEN next ELSE best)
               : next \in {Slide(Append(cur.equality1, cur.edit[1]),
                                 Append(Tail(cur.edit), cur.equality2[1]),
                                 Tail(cur.equality2))}})
    ELSE best

\* the loop state of DiffCleanupSemanticLossless
LosslessState(diffs, pointer, err) ==
    [diffs |-> diffs, pointer |-> pointer, err |-> err]

\* "We have an improvement, save it back to the diff."
LosslessSave(diffs, pointer, best) ==
    LET diffs1 == IF Len(best.equality1) > 0
                  THEN [diffs EXCEPT ![pointer].Text = best.equality1]
                  ELSE Slice(diffs, 0, pointer - 1)
                         \o Slice(diffs, pointer, Len(diffs))
        pointer1 == IF Len(best.equality1) > 0 THEN pointer ELSE pointer - 1
        diffs2 == [diffs1 EXCEPT ![pointer1 + 1].Text = best.edit]
        diffs3 == IF Len(best.equality2) > 0
                  THEN [diffs2 EXCEPT ![pointer1 + 2].Text = best.equality2]
                  ELSE Slice(diffs2, 0, pointer1 + 1)
                         \o Slice(diffs2, pointer1 + 2, Len(diffs2))
        pointer2 == IF Len(best.equality2) > 0 THEN pointer1 ELSE pointer1 - 1
    IN LosslessState(diffs3, pointer2 + 1, "nil")

\* one iteration of the loop of DiffCleanupSemanticLossless
LosslessStep(st) ==
    LET diffs == st.diffs
        pointer == st.pointer
    IN IF pointer < 1 THEN [st EXCEPT !.err = "panic"]   \* diffs[pointer-1]
       ELSE IF diffs[pointer].Type = EQUAL /\ diffs[pointer + 2].Type = EQUAL
       THEN Only({
            IF diffs[pointer].Text # best.equality1
            THEN LosslessSave(diffs, pointer, best)
            ELSE LosslessState(diffs, pointer + 1, "nil")
            : best \in {SlideRight(left, left)
                        : left \in {SlideLeft(diffs[pointer].Text,
                                              diffs[pointer + 1].Text,
                                              diffs[pointer + 2].Text)}}})
       ELSE LosslessState(diffs, pointer + 1, "nil")

\* the loop ends: an iteration moves the pointer on or removes a record
RECURSIVE LosslessLoop(_)
LosslessLoop(st) ==
    IF st.err # "nil" THEN st
    ELSE IF ~(st.pointer < Len(st.diffs) - 1) THEN st
    ELSE Only({LosslessLoop(st1) : st1 \in {LosslessStep(st)}})

DiffCleanupSemanticLossless(diffs) ==
    Only({IF st.err # "nil" THEN Failed(st.err) ELSE Ok(st.diffs)
          : st \in {LosslessLoop(LosslessState(diffs, 1, "nil"))}})

----------------------------------------------------------------------------
(* DiffCleanupSemantic *)

Max(a, b) == IF a > b THEN a ELSE b

\* the loop state of the first loop of DiffCleanupSemantic
SemanticState(diffs, equalities, lastequality, pointer, length_insertions1, length_deletions1, length_insertions2, length_deletions2, changes, err) ==
    [diffs |-> diffs, equalities |-> equalities,
     lastequality |-> lastequality, pointer |-> pointer,
     length_insertions1 |-> length_insertions1,
     length_deletions1 |-> length_deletions1,
     length_insertions2 |-> length_insertions2,
     length_deletions2 |-> length_deletions2,
     changes |-> changes, err |-> err]

\* "Eliminate an equality that is smaller or equal to the edits on both
\* sides of it": the equality becomes a DELETE and the record after the
\* current one is made an INSERT
SemanticEliminate(st) ==
    LET diffs == st.diffs
        pointer == st.pointer
        lastPointer == st.equalities[Len(st.equalities)]
        popped == Slice(st.equalities, 0, Len(st.equalities) - 1)
        equalities == IF Len(popped) > 0
                      THEN Slice(popped, 0, Len(popped) - 1) ELSE popped
        back == IF Len(equalities) > 0
                THEN equalities[Len(equalities)] ELSE -1
    IN IF pointer + 1 >= Len(diffs)
       THEN [st EXCEPT !.err = "panic"]          \* diffs[pointer+1]
       ELSE SemanticState(
              [diffs EXCEPT ![lastPointer + 1].Type = DELETE,
                            ![lastPointer + 1].Text = st.lastequality,
                            ![pointer + 2].Type = INSERT],
              equalities, <<>>, back + 1, 0, 0, 0, 0, TRUE, "nil")

\* one iteration of the first loop of DiffCleanupSemantic
SemanticStep(st) ==
    LET this == st.diffs[st.pointer + 1]
        length_insertions2 ==
            IF this.Type = INSERT
            THEN st.length_insertions2 + Len(this.Text)
            ELSE st.length_insertions2
        length_deletions2 ==
            IF this.Type = INSERT
            THEN st.length_deletions2
            ELSE st.length_deletions2 + Len(this.Text)
    IN IF this.Type = EQUAL
       THEN SemanticState(st.diffs, Append(st.equalities, st.pointer),
                          this.Text, st.pointer + 1,
                          st.length_insertions2, st.length_deletions2, 0, 0,
                          st.changes, "nil")
       ELSE IF /\ Len(st.lastequality) > 0
               /\ Len(st.lastequality)
                    <= Max(st.length_insertions1, st.length_deletions1)
               /\ Len(st.lastequality)
                    <= Max(length_insertions2, length_deletions2)
       THEN SemanticEliminate(st)
       ELSE [st EXCEPT !.length_insertions2 = length_insertions2,
                       !.length_deletions2 = length_deletions2,
                       !.pointer = @ + 1]

\* the loop ends: an elimination leaves one EQUAL record fewer
RECURSIVE SemanticLoop(_)
SemanticLoop(st) ==
    IF st.err # "nil" THEN st
    ELSE IF ~(st.pointer < Len(st.diffs)) THEN st
    ELSE Only({SemanticLoop(st1) : st1 \in {SemanticStep(st)}})

\* the loop state of the overlap loop of DiffCleanupSemantic
OverlapState(diffs, pointer, err) ==
    [diffs |-> diffs, pointer |-> pointer, err |-> err]

\* One iteration of the overlap loop.  Where an overlap is extracted the
\* code takes postDiffs := diffs[pointer:0], and pointer is at least 1.
OverlapStep(st) ==
    LET diffs == st.diffs
        pointer == st.pointer
        deletion == diffs[pointer].Text            \* diffs[pointer-1]
        insertion == diffs[pointer + 1].Text       \* diffs[pointer]
    IN IF diffs[pointer].Type = DELETE /\ diffs[pointer + 1].Type = INSERT
       THEN Only({
            IF overlap1.err # "nil" THEN [st EXCEPT !.err = overlap1.err]
            ELSE IF overlap2.err # "nil" THEN [st EXCEPT !.err = overlap2.err]
            ELSE IF overlap1.n >= overlap2.n
            THEN IF \/ overlap1.n >= Len(deletion) \div 2
                    \/ overlap1.n >= Len(insertion) \div 2
                 THEN [st EXCEPT !.err = "panic"]      \* diffs[pointer:0]
                 ELSE OverlapState(diffs, pointer + 2, "nil")
            ELSE IF \/ overlap2.n >= Len(deletion) \div 2
                    \/ overlap2.n >= Len(insertion) \div 2
                 THEN [st EXCEPT !.err = "panic"]      \* diffs[pointer:0]
                 ELSE OverlapState(diffs, pointer + 2, "nil")
            : overlap1 \in {DiffCommonOverlap(deletion, insertion)},
              overlap2 \in {DiffCommonOverlap(insertion, deletion)}})
       ELSE OverlapState(diffs, pointer + 1, "nil")

RECURSIVE OverlapLoop(_)
OverlapLoop(st) ==
    IF st.err # "nil" THEN st
    ELSE IF ~(st.pointer < Len(st.diffs)) THEN st
    ELSE Only({OverlapLoop(st1) : st1 \in {OverlapStep(st)}})

\* DiffCleanupSemantic from the end of its first loop
SemanticFinish(first) ==
    IF first.err # "nil" THEN Failed(first.err)
    ELSE Only({
         IF merged.err \notin {"nil", "error"} THEN Failed(merged.err)
         ELSE Only({
              IF lossless.err # "nil" THEN lossless
              ELSE Only({IF st.err # "nil" THEN Failed(st.err)
                         ELSE Ok(st.diffs)
                         : st \in {OverlapLoop(
                                     OverlapState(lossless.diffs, 1, "nil"))}})
              \* "_, diffs = dmp.DiffCleanupMerge(diffs)"
              : lossless \in {DiffCleanupSemanticLossless(
                                IF merged.err = "error" THEN <<>>
                                ELSE merged.diffs)}})
         : merged \in {IF first.changes THEN DiffCleanupMerge(first.diffs)
                       ELSE Ok(first.diffs)}})

DiffCleanupSemantic(diffs) ==
    IF Len(diffs) = 0 THEN Ok(<<>>)
    ELSE Only({SemanticFinish(first)
               : first \in {SemanticLoop(SemanticState(diffs, <<>>, <<>>, 0,
                                           0, 0, 0, 0, FALSE, "nil"))}})

(* Calls of DiffCleanupSemantic: a call on a script, and a second call on  *)
(* what the first returned                                                 *)

MaxLongSegs == 4
MaxShortText == 1

ShortSegments ==
    {Diff(type, text) : type \in Operation, text \in Texts(MaxShortText)}

\* scripts of MaxLongSegs segments of short texts
RECURSIVE LongScriptsOfLen(_)
LongScriptsOfLen(n) ==
    IF n = 0 THEN {<<>>}
    ELSE {Append(s, d) : s \in LongScriptsOfLen(n - 1), d \in ShortSegments}

SemanticCalls ==
    {[fn |-> "DiffCleanupSemantic", diffs |-> s] :
        s \in Scripts \cup LongScriptsOfLen(MaxLongSegs)}

CallDiffCleanupSemantic ==
    /\ pc = "ready"
    /\ call.fn = "DiffCleanupSemantic"
    /\ Return(DiffCleanupSemantic(call.diffs))

CallDiffCleanupSemanticAgain ==
    /\ pc = "done"
    /\ call.fn = "DiffCleanupSemantic"
    /\ ret.err = "nil"
    /\ pc' = "again"
    /\ ret2' = DiffCleanupSemantic(ret.diffs)
    /\ UNCHANGED <<call, ret>>

InitSemantic == Start(SemanticCalls)

NextSemantic ==
    \/ CallDiffCleanupSemantic
    \/ CallDiffCleanupSemanticAgain

SpecSemantic == InitSemantic /\ [][NextSemantic]_vars

(* Properties of DiffCleanupSemantic *)

SemanticCall == call.fn = "DiffCleanupSemantic"

\* the greatest n such that the last n characters of textA are the first n
\* characters of textB
GreatestOverlap(textA, textB) ==
    CHOOSE n \in 0..Min(Len(textA), Len(textB)) :
        /\ IsOverlap(n, textA, textB)
        /\ \A m \in (n + 1)..Min(Len(textA), Len(textB)) :
              ~IsOverlap(m, textA, textB)

\* what the overlap rule makes of DELETE d, INSERT i
OverlapRule(d, i) ==
    LET o1 == GreatestOverlap(d, i)
        o2 == GreatestOverlap(i, d)
        o == Max(o1, o2)
    IN IF 2 * o >= Len(d) \/ 2 * o >= Len(i)
       THEN IF o1 >= o2
            THEN <<Diff(DELETE, Slice(d, 0, Len(d) - o1)),
                   Diff(EQUAL, Slice(i, 0, o1)),
                   Diff(INSERT, Slice(i, o1, Len(i)))>>
            ELSE <<Diff(INSERT, Slice(i, 0, Len(i) - o2)),
                   Diff(EQUAL, Slice(d, 0, o2)),
                   Diff(DELETE, Slice(d, o2, Len(d)))>>
       ELSE <<Diff(DELETE, d), Diff(INSERT, i)>>

\* C14: DiffCleanupSemantic on a DELETE d followed by an INSERT i splices an
\* EQUAL between them exactly when the larger of the two overlaps is at
\* least half of d or half of i (forward: DELETE, EQUAL, INSERT; reverse:
\* INSERT, EQUAL, DELETE), and leaves the pair unchanged otherwise.
SemanticOverlapRule ==
    (/\ pc = "done"
     /\ SemanticCall
     /\ Len(call.diffs) = 2
     /\ call.diffs[1].Type = DELETE
     /\ call.diffs[2].Type = INSERT)
    => ret = Ok(OverlapRule(call.diffs[1].Text, call.diffs[2].Text))

\* C15: DiffCleanupSemantic completes on every script, and a second call,
\* on the script the first call returned, returns that script.
SemanticIdempotent ==
    /\ (pc = "done" /\ SemanticCall) => ret.err = "nil"
    /\ (pc = "again" /\ SemanticCall) => ret2 = ret

(* Calls of DiffCleanupSemanticLossless: a single edit between two         *)
(* equalities, over a letter, a blank and a full stop                      *)

MaxSlideText == 3

SlideAlphabet == {"a", " ", "."}

RECURSIVE SlideTextsOfLen(_)
SlideTextsOfLen(n) ==
    IF n = 0 THEN {<<>>}
    ELSE {Append(t, c) : t \in SlideTextsOfLen(n - 1), c \in SlideAlphabet}

SlideTexts == UNION {SlideTextsOfLen(k) : k \in 0..MaxSlideText}

LosslessCalls ==
    {[fn |-> "DiffCleanupSemanticLossless",
      diffs |-> <<Diff(EQUAL, e1), Diff(type, x), Diff(EQUAL, e2)>>] :
        type \in {DELETE, INSERT},
        e1 \in SlideTexts, x \in SlideTexts, e2 \in SlideTexts}

CallDiffCleanupSemanticLossless ==
    /\ pc = "ready"
    /\ call.fn = "DiffCleanupSemanticLossless"
    /\ Return(DiffCleanupSemanticLossless(call.diffs))

InitLossless == Start(LosslessCalls)

NextLossless == CallDiffCleanupSemanticLossless

SpecLossless == InitLossless /\ [][NextLossless]_vars

(* Properties of DiffCleanupSemanticLossless *)

LosslessCall == call.fn = "DiffCleanupSemanticLossless"

\* the positions reached from a position by sliding the edit to the left,
\* one character at a time
RECURSIVE ReachLeft(_)
ReachLeft(s) ==
    {s} \cup
    IF /\ Len(s.equality1) > 0
       /\ Len(s.edit) > 0
       /\ s.equality1[Len(s.equality1)] = s.edit[Len(s.edit)]
    THEN ReachLeft(Slide(Slice(s.equality1, 0, Len(s.equality1) - 1),
                         <<s.edit[Len(s.edit)]>>
                           \o Slice(s.edit, 0, Len(s.edit) - 1),
                         <<s.edit[Len(s.edit)]>> \o s.equality2))
    ELSE {}

\* and to the right
RECURSIVE ReachRight(_)
ReachRight(s) ==
    {s} \cup
    IF /\ Len(s.equality2) > 0
       /\ Len(s.edit) > 0
       /\ s.equality2[1] = s.edit[1]
    THEN ReachRight(Slide(Append(s.equality1, s.edit[1]),
                          Append(Tail(s.edit), s.edit[1]),
                          Tail(s.equality2)))
    ELSE {}

\* the position of the greatest score, the rightmost of them on ties
BestSlide(e1, x, e2) ==
    LET reach == ReachLeft(Slide(e1, x, e2)) \cup ReachRight(Slide(e1, x, e2))
    IN CHOOSE s \in reach :
          \A t \in reach :
             \/ t.score < s.score
             \/ t.score = s.score /\ Len(t.equality1) <= Len(s.equality1)

\* the script of a position: an equality that became empty is removed
SlideScript(type, s) ==
    (IF Len(s.equality1) > 0 THEN <<Diff(EQUAL, s.equality1)>> ELSE <<>>)
    \o <<Diff(type, s.edit)>>
    \o (IF Len(s.equality2) > 0 THEN <<Diff(EQUAL, s.equality2)>> ELSE <<>>)

\* C16: DiffCleanupSemanticLossless replaces a single edit between two
\* equalities by the slide of it whose two boundary scores add up to the
\* maximum over the positions reachable by sliding, the rightmost on ties;
\* an equality that becomes empty is removed.
LosslessBestSlide ==
    (pc = "done" /\ LosslessCall) =>
        LET e1 == call.diffs[1].Text
            x == call.diffs[2].Text
            e2 == call.diffs[3].Text
            best == BestSlide(e1, x, e2)
        IN ret = Ok(IF best.equality1 = e1 THEN call.diffs
                    ELSE SlideScript(call.diffs[2].Type, best))

----------------------------------------------------------------------------
(* DiffCleanupEfficiency *)

\* the loop state of DiffCleanupEfficiency; equalities is the linked stack,
\* its top last
EfficiencyState(diffs, equalities, lastequality, pointer, preIns, preDel, postIns, postDel, changes, err) ==
    [diffs |-> diffs, equalities |-> equalities,
     lastequality |-> lastequality, pointer |-> pointer,
     preIns |-> preIns, preDel |-> preDel,
     postIns |-> postIns, postDel |-> postDel,
     changes |-> changes, err |-> err]

\* the split of the last equality into a DELETE and an INSERT
EfficiencySplit(st, postIns, postDel) ==
    LET insPoint == st.equalities[Len(st.equalities)]
        duplicated == Splice(st.diffs, insPoint,
                             <<Diff(DELETE, st.lastequality)>>, insPoint)
        diffs == [duplicated EXCEPT ![insPoint + 2].Type = INSERT]
        popped == Slice(st.equalities, 0, Len(st.equalities) - 1)
        equalities == IF Len(popped) > 0
                      THEN Slice(popped, 0, Len(popped) - 1) ELSE popped
        back == IF Len(equalities) > 0
                THEN equalities[Len(equalities)] ELSE -1
    IN IF Len(st.equalities) = 0
       THEN [st EXCEPT !.err = "panic"]             \* equalities.data
       ELSE IF st.preIns /\ st.preDel
       THEN EfficiencyState(diffs, <<>>, <<>>, st.pointer + 1,
                            st.preIns, st.preDel, TRUE, TRUE, TRUE, "nil")
       ELSE EfficiencyState(diffs, equalities, <<>>, back + 1,
                            st.preIns, st.preDel, FALSE, FALSE, TRUE, "nil")

Count(flag) == IF flag THEN 1 ELSE 0

\* the loop body without the test of the length of an equality against
\* Diff_EditCost
EfficiencyStepAnyLength(Diff_EditCost, st) ==
    LET this == st.diffs[st.pointer + 1]
        postIns == st.postIns \/ this.Type = INSERT
        postDel == st.postDel \/ this.Type = DELETE
        sumPres == Count(st.preIns) + Count(st.preDel)
                     + Count(postIns) + Count(postDel)
    IN IF this.Type = EQUAL
       THEN IF st.postIns \/ st.postDel
            THEN [st EXCEPT !.equalities = Append(@, st.pointer),
                            !.preIns = st.postIns,
                            !.preDel = st.postDel,
                            !.lastequality = this.Text,
                            !.postIns = FALSE,
                            !.postDel = FALSE,
                            !.pointer = @ + 1]
            ELSE [st EXCEPT !.equalities = <<>>,
                            !.lastequality = <<>>,
                            !.postIns = FALSE,
                            !.postDel = FALSE,
                            !.pointer = @ + 1]
       ELSE IF /\ Len(st.lastequality) > 0
               /\ \/ st.preIns /\ st.preDel /\ postIns /\ postDel
                  \/ /\ Len(st.lastequality) < Diff_EditCost \div 2
                     /\ sumPres = 3
       THEN EfficiencySplit(st, postIns, postDel)
       ELSE [st EXCEPT !.postIns = postIns,
                       !.postDel = postDel,
                       !.pointer = @ + 1]

\* one iteration of the loop of DiffCleanupEfficiency
EfficiencyStep(Diff_EditCost, st) ==
    LET this == st.diffs[st.pointer + 1]
        postIns == st.postIns \/ this.Type = INSERT
        postDel == st.postDel \/ this.Type = DELETE
        sumPres == Count(st.preIns) + Count(st.preDel)
                     + Count(postIns) + Count(postDel)
    IN IF this.Type = EQUAL
       THEN IF /\ Len(this.Text) < Diff_EditCost
               /\ (st.postIns \/ st.postDel)
            THEN \* candidate found
                 [st EXCEPT !.equalities = Append(@, st.pointer),
                            !.preIns = st.postIns,
                            !.preDel = st.postDel,
                            !.lastequality = this.Text,
                            !.postIns = FALSE,
                            !.postDel = FALSE,
                            !.pointer = @ + 1]
            ELSE \* not a candidate, and can never become one
                 [st EXCEPT !.equalities = <<>>,
                            !.lastequality = <<>>,
                            !.postIns = FALSE,
                            !.postDel = FALSE,
                            !.pointer = @ + 1]
       ELSE IF /\ Len(st.lastequality) > 0
               /\ \/ st.preIns /\ st.preDel /\ postIns /\ postDel
                  \/ /\ Len(st.lastequality) < Diff_EditCost \div 2
                     /\ sumPres = 3
       THEN EfficiencySplit(st, postIns, postDel)
       ELSE [st EXCEPT !.postIns = postIns,
                       !.postDel = postDel,
                       !.pointer = @ + 1]

\* the loop ends: a split leaves one EQUAL record fewer
RECURSIVE EfficiencyLoop(_, _)
EfficiencyLoop(Diff_EditCost, st) ==
    IF st.err # "nil" THEN st
    ELSE IF ~(st.pointer < Len(st.diffs)) THEN st
    ELSE Only({EfficiencyLoop(Diff_EditCost, st1)
               : st1 \in {EfficiencyStep(Diff_EditCost, st)}})

\* outcome of DiffCleanupEfficiency: merged tells whether Merge was run
Cleaned(err, diffs, merged) ==
    [err |-> err, diffs |-> diffs, merged |-> merged]

DiffCleanupEfficiency(Diff_EditCost, diffs) ==
    Only({
      IF st.err # "nil" THEN Cleaned(st.err, <<>>, FALSE)
      ELSE IF ~st.changes THEN Cleaned("nil", st.diffs, FALSE)
      ELSE Only({
           \* "_, diffs = dmp.DiffCleanupMerge(diffs)"
           IF merged.err = "error" THEN Cleaned("nil", <<>>, TRUE)
           ELSE Cleaned(merged.err, merged.diffs, TRUE)
           : merged \in {DiffCleanupMerge(st.diffs)}})
      : st \in {EfficiencyLoop(Diff_EditCost,
                  EfficiencyState(diffs, <<>>, <<>>, 0, FALSE, FALSE,
                                  FALSE, FALSE, FALSE, "nil"))}})

(* Calls of DiffCleanupEfficiency *)

MaxEqualLen == 4

\* Diff_EditCost of a zero DiffMatchPatch, of New() and of the tests
EditCosts == {0, 4, 5}

RECURSIVE Repeat(_, _)
Repeat(char, n) == IF n = 0 THEN <<>> ELSE Append(Repeat(char, n - 1), char)

Equalities == {Repeat("x", n) : n \in 0..MaxEqualLen}

\* the edits between two equalities: deletions of "a", insertions of "b"
EditRuns ==
    { <<>>,
      <<Diff(DELETE, <<"a">>)>>,
      <<Diff(INSERT, <<"b">>)>>,
      <<Diff(DELETE, <<"a">>), Diff(INSERT, <<"b">>)>>,
      <<Diff(INSERT, <<"b">>), Diff(DELETE, <<"a">>)>> }

\* one equality with edits around it
Surrounded(pre, equality, post) == pre \o <<Diff(EQUAL, equality)>> \o post

SurroundedScripts ==
    {Surrounded(pre, equality, post) :
        pre \in EditRuns, equality \in Equalities, post \in EditRuns}

MaxEfficiencySegs == 4

EfficiencySegments ==
    {Diff(DELETE, <<"a">>), Diff(INSERT, <<"b">>)}
        \cup {Diff(EQUAL, equality) : equality \in Equalities}

\* every script of up to MaxEfficiencySegs of these segments
RECURSIVE EfficiencyScriptsOfLen(_)
EfficiencyScriptsOfLen(n) ==
    IF n = 0 THEN {<<>>}
    ELSE {Append(s, d) :
            s \in EfficiencyScriptsOfLen(n - 1), d \in EfficiencySegments}

EfficiencyScripts ==
    UNION {EfficiencyScriptsOfLen(n) : n \in 0..MaxEfficiencySegs}

EfficiencyCalls ==
    {[fn |-> "DiffCleanupEfficiency", Diff_EditCost |-> cost, diffs |-> diffs] :
        cost \in EditCosts, diffs \in SurroundedScripts \cup EfficiencyScripts}

CallDiffCleanupEfficiency ==
    /\ pc = "ready"
    /\ call.fn = "DiffCleanupEfficiency"
    /\ Return(DiffCleanupEfficiency(call.Diff_EditCost, call.diffs))

InitEfficiency == Start(EfficiencyCalls)

NextEfficiency == CallDiffCleanupEfficiency

SpecEfficiency == InitEfficiency /\ [][NextEfficiency]_vars

(* Properties of DiffCleanupEfficiency *)

EfficiencyCall == call.fn = "DiffCleanupEfficiency"

Has(run, type) == \E i \in 1..Len(run) : run[i].Type = type

\* the text of the records of the given type, concatenated
RECURSIVE TextOf(_, _)
TextOf(run, type) ==
    IF run = <<>> THEN <<>>
    ELSE (IF Head(run).Type = type THEN Head(run).Text ELSE <<>>)
           \o TextOf(Tail(run), type)

\* the rule of the collapse, for an equality with the edits around it
Collapses(cost, pre, equality, post) ==
    LET flags == Count(Has(pre, INSERT)) + Count(Has(pre, DELETE))
                   + Count(Has(post, INSERT)) + Count(Has(post, DELETE))
    IN /\ Len(equality) < cost
       /\ \/ flags = 4
          \/ Len(equality) < cost \div 2 /\ flags = 3

Collapsed(pre, equality, post) ==
    <<Diff(DELETE, TextOf(pre, DELETE) \o equality \o TextOf(post, DELETE)),
      Diff(INSERT, TextOf(pre, INSERT) \o equality \o TextOf(post, INSERT))>>

\* C17: a non-empty equality is collapsed exactly when it is shorter than
\* the edit cost and either an insertion and a deletion stand on both sides
\* of it, or it is shorter than half the edit cost and three of the four are
\* there; the result of a collapse is one DELETE followed by one INSERT that
\* hold the text of the equality, and no collapse leaves the script as it was
EfficiencyCollapse ==
    pc = "done" /\ EfficiencyCall =>
        \A pre \in EditRuns, post \in EditRuns, equality \in Equalities :
            /\ Len(equality) > 0
            /\ call.diffs = Surrounded(pre, equality, post)
            => /\ ret.err = "nil"
               /\ ret.diffs =
                    IF Collapses(call.Diff_EditCost, pre, equality, post)
                    THEN Collapsed(pre, equality, post)
                    ELSE call.diffs

\* the collapse of the equality alone, whatever the order of the result
EfficiencyCollapseDecided ==
    pc = "done" /\ EfficiencyCall =>
        \A pre \in EditRuns, post \in EditRuns, equality \in Equalities :
            /\ Len(equality) > 0
            /\ call.diffs = Surrounded(pre, equality, post)
            => /\ ret.err = "nil"
               /\ ret.merged
                    = Collapses(call.Diff_EditCost, pre, equality, post)
               /\ IF ret.merged
                  THEN /\ Len(ret.diffs) = 2
                       /\ {ret.diffs[1], ret.diffs[2]}
                            = {Collapsed(pre, equality, post)[1],
                               Collapsed(pre, equality, post)[2]}
                  ELSE ret.diffs = call.diffs

NoCandidate(cost, diffs) ==
    \A i \in 1..Len(diffs) :
        diffs[i].Type = EQUAL => ~(Len(diffs[i].Text) < cost)

\* C18: a script in which no equality is shorter than the edit cost is
\* returned as it was given, and DiffCleanupMerge is not run on it
EfficiencyNoCandidate ==
    pc = "done" /\ EfficiencyCall /\ NoCandidate(call.Diff_EditCost, call.diffs)
        => ret = Cleaned("nil", call.diffs, FALSE)

\* an equality as long as the edit cost with an insertion and a deletion on
\* both sides has been left alone
EfficiencyNoCandidateWitness ==
    /\ pc = "done"
    /\ EfficiencyCall
    /\ call.Diff_EditCost = 4
    /\ call.diffs = Surrounded(<<Diff(DELETE, <<"a">>), Diff(INSERT, <<"b">>)>>,
                               Repeat("x", 4),
                               <<Diff(DELETE, <<"a">>), Diff(INSERT, <<"b">>)>>)
    /\ ret.diffs = call.diffs
    /\ ~ret.merged

----------------------------------------------------------------------------
(* DiffBisect_ *)

\* A deadline as a call sees it: the zero time.Time, or a time that
\* time.Now() is first found after at the top of iteration "passed" of the
\* outer loop (the clock does not go back, so it is found after it from then
\* on; a value past the last iteration is a deadline the call does not reach).
NoDeadline == [zero |-> TRUE, passed |-> 0]
DeadlineAt(d) == [zero |-> FALSE, passed |-> d]

\* a deadline check that never bails out
DeadlineIgnored(deadline, d) == FALSE

\* "!deadline.IsZero() && time.Now().After(deadline)" at the top of
\* iteration d
DeadlineReached(deadline, d) == ~deadline.zero /\ d >= deadline.passed

\* outcome of DiffBisect_: left tells how the outer loop was left, "break"
\* at the deadline, "end" at d = max_d, "split" by the return of
\* DiffBisectSplit, "panic"
Bisected(err, diffs, left) == [err |-> err, diffs |-> diffs, left |-> left]

\* DiffBisectSplit
DiffBisectSplit(Diff_Timeout, textA, textB, x, y) ==
    IF x < 0 \/ x > Len(textA) \/ y < 0 \/ y > Len(textB)
    THEN Bisected("panic", <<>>, "panic")
    ELSE Only({
         IF diffs.err # "nil" THEN Bisected(diffs.err, <<>>, "split")
         ELSE IF diffsb.err # "nil" THEN Bisected(diffsb.err, <<>>, "split")
         ELSE Bisected("nil", diffs.diffs \o diffsb.diffs, "split")
         : diffs \in {DiffMainDeadline(Diff_Timeout, Slice(textA, 0, x),
                                       Slice(textB, 0, y), FALSE)},
           diffsb \in {DiffMainDeadline(Diff_Timeout,
                                        Slice(textA, x, Len(textA)),
                                        Slice(textB, y, Len(textB)), FALSE)}})

\* a slice of n ints, each -1
Minus1s(n) == [i \in 0..(n - 1) |-> -1]

\* the locals of DiffBisect_ that the loops change; out is Pending until
\* the function returns or panics
BisectState(v1, v2, k1start, k1end, k2start, k2end, out) ==
    [v1 |-> v1, v2 |-> v2, k1start |-> k1start, k1end |-> k1end,
     k2start |-> k2start, k2end |-> k2end, out |-> out]

\* the locals that do not change
BisectFrame(Diff_Timeout, textA, textB) ==
    LET max_d == (Len(textA) + Len(textB) + 1) \div 2
        delta == Len(textA) - Len(textB)
    IN [Diff_Timeout |-> Diff_Timeout, textA |-> textA, textB |-> textB,
        max_d |-> max_d, v_offset |-> max_d, v_length |-> 2 * max_d,
        delta |-> delta, front |-> delta % 2 # 0]

\* the furthest x of the diagonal k in v, from its neighbours; -2 where an
\* index is out of range
Furthest(v, offset, k, d) ==
    IF k = -d
    THEN IF (offset + 1) \in DOMAIN v THEN v[offset + 1] ELSE -2
    ELSE IF k = d
    THEN IF (offset - 1) \in DOMAIN v THEN v[offset - 1] + 1 ELSE -2
    ELSE IF (offset - 1) \notin DOMAIN v \/ (offset + 1) \notin DOMAIN v
    THEN -2
    ELSE IF v[offset - 1] < v[offset + 1]
    THEN v[offset + 1] ELSE v[offset - 1] + 1

\* "for x1 < textALen && y1 < textBLen && textA[x1] == textB[y1]": the end
\* of the snake from (x, y), or a panic at a negative index
RECURSIVE Snake(_, _, _, _)
Snake(textA, textB, x, y) ==
    IF ~(x < Len(textA) /\ y < Len(textB)) THEN [err |-> "nil", x |-> x, y |-> y]
    ELSE IF x < 0 \/ y < 0 THEN [err |-> "panic", x |-> x, y |-> y]
    ELSE IF textA[x + 1] # textB[y + 1] THEN [err |-> "nil", x |-> x, y |-> y]
    ELSE Snake(textA, textB, x + 1, y + 1)

Reverse(text) == [i \in 1..Len(text) |-> text[Len(text) + 1 - i]]

\* the body of the loop over k1
FrontStep(f, st, d, k1) ==
    LET k1_offset == f.v_offset + k1
        start == Furthest(st.v1, k1_offset, k1, d)
        snake == Snake(f.textA, f.textB, start, start - k1)
        x1 == snake.x
        y1 == snake.y
        k2_offset == f.v_offset + f.delta - k1
        stored == [st EXCEPT !.v1[k1_offset] = x1]
    IN IF start = -2 \/ snake.err # "nil" \/ k1_offset \notin DOMAIN st.v1
       THEN [st EXCEPT !.out = Bisected("panic", <<>>, "panic")]
       ELSE IF x1 > Len(f.textA) THEN [stored EXCEPT !.k1end = @ + 2]
       ELSE IF y1 > Len(f.textB) THEN [stored EXCEPT !.k1start = @ + 2]
       ELSE IF /\ f.front
               /\ k2_offset >= 0 /\ k2_offset < f.v_length
               /\ st.v2[k2_offset] # -1
               /\ x1 >= Len(f.textA) - st.v2[k2_offset]
       THEN [stored EXCEPT !.out = DiffBisectSplit(f.Diff_Timeout, f.textA,
                                                   f.textB, x1, y1)]
       ELSE stored

\* "for k1 := -d + k1start; k1 <= d-k1end; k1 += 2"
RECURSIVE FrontLoop(_, _, _, _)
FrontLoop(f, st, d, k1) ==
    IF st.out # Pending \/ ~(k1 <= d - st.k1end) THEN st
    ELSE Only({FrontLoop(f, st1, d, k1 + 2) : st1 \in {FrontStep(f, st, d, k1)}})

\* the body of the loop over k2
ReverseStep(f, st, d, k2) ==
    LET k2_offset == f.v_offset + k2
        start == Furthest(st.v2, k2_offset, k2, d)
        snake == Snake(Reverse(f.textA), Reverse(f.textB), start, start - k2)
        x2 == snake.x
        y2 == snake.y
        k1_offset == f.v_offset + f.delta - k2
        stored == [st EXCEPT !.v2[k2_offset] = x2]
    IN IF start = -2 \/ snake.err # "nil" \/ k2_offset \notin DOMAIN st.v2
       THEN [st EXCEPT !.out = Bisected("panic", <<>>, "panic")]
       ELSE IF x2 > Len(f.textA) THEN [stored EXCEPT !.k2end = @ + 2]
       ELSE IF y2 > Len(f.textB) THEN [stored EXCEPT !.k2start = @ + 2]
       ELSE IF /\ ~f.front
               /\ k1_offset >= 0 /\ k1_offset < f.v_length
               /\ st.v1[k1_offset] # -1
               /\ st.v1[k1_offset] >= Len(f.textA) - x2
       THEN [stored EXCEPT !.out =
               DiffBisectSplit(f.Diff_Timeout, f.textA, f.textB,
                               st.v1[k1_offset],
                               f.v_offset + st.v1[k1_offset] - k1_offset)]
       ELSE stored

\* "for k2 := -d + k2start; k2 <= d-k2end; k2 += 2"
RECURSIVE ReverseLoop(_, _, _, _)
ReverseLoop(f, st, d, k2) ==
    IF st.out # Pending \/ ~(k2 <= d - st.k2end) THEN st
    ELSE Only({ReverseLoop(f, st1, d, k2 + 2)
               : st1 \in {ReverseStep(f, st, d, k2)}})

\* "Diff took too long and hit the deadline or number of diffs equals
\* number of characters"
BisectFallback(textA, textB) == <<Diff(DELETE, textA), Diff(INSERT, textB)>>

\* "for d := 0; d < max_d; d++"
RECURSIVE BisectLoop(_, _, _, _)
BisectLoop(f, deadline, st, d) ==
    IF st.out # Pending THEN st.out
    ELSE IF ~(d < f.max_d)
    THEN Bisected("nil", BisectFallback(f.textA, f.textB), "end")
    ELSE IF DeadlineReached(deadline, d)
    THEN Bisected("nil", BisectFallback(f.textA, f.textB), "break")
    ELSE Only({BisectLoop(f, deadline, back, d + 1)
               : back \in {ReverseLoop(f, front, d, -d + front.k2start)
                           : front \in {FrontLoop(f, st, d, -d + st.k1start)}}})

\* DiffBisect_.  The texts are indexed by bytes in the loops and by runes in
\* DiffBisectSplit; the texts of the calls are ASCII, where the two agree.
DiffBisect_(Diff_Timeout, textA, textB, deadline) ==
    Only({BisectLoop(f, deadline,
                     BisectState(Minus1s(f.v_length), Minus1s(f.v_length),
                                 0, 0, 0, 0, Pending), 0)
          : f \in {BisectFrame(Diff_Timeout, textA, textB)}})

(* Calls of DiffBisect_ *)

MaxDeadline == 2

Deadlines == {NoDeadline} \cup {DeadlineAt(d) : d \in 0..MaxDeadline}

BisectCalls ==
    {[fn |-> "DiffBisect_", Diff_Timeout |-> t, textA |-> a, textB |-> b,
      deadline |-> deadline] :
        t \in Timeouts, a \in Texts(MaxText), b \in Texts(MaxText),
        deadline \in Deadlines}

CallDiffBisect_ ==
    /\ pc = "ready"
    /\ call.fn = "DiffBisect_"
    /\ Return(DiffBisect_(call.Diff_Timeout, call.textA, call.textB,
                          call.deadline))

InitBisect == Start(BisectCalls)

NextBisect == CallDiffBisect_

SpecBisect == InitBisect /\ [][NextBisect]_vars

(* Properties of DiffBisect_ *)

BisectCall == call.fn = "DiffBisect_"

\* C19: a call that finds its deadline passed at the top of an iteration
\* returns exactly [DELETE textA, INSERT textB], which spells textA and
\* textB, and no error; a deadline passed at the first iteration is found
\* there, and the zero deadline is never found passed
DeadlineFallback ==
    pc = "done" /\ BisectCall =>
        /\ ret.left = "break" =>
              /\ ~call.deadline.zero
              /\ ret.err = "nil"
              /\ ret.diffs = <<Diff(DELETE, call.textA),
                               Diff(INSERT, call.textB)>>
              /\ DiffTextSource(ret.diffs) = call.textA
              /\ DiffTextResult(ret.diffs) = call.textB
        /\ /\ ~call.deadline.zero
           /\ call.deadline.passed = 0
           /\ Len(call.textA) + Len(call.textB) > 0
           => ret.left = "break"

DeadlineFallbackWitness ==
    /\ pc = "done"
    /\ BisectCall
    /\ call.textA = <<"a", "b">>
    /\ call.textB = <<"b", "a">>
    /\ call.deadline = DeadlineAt(0)
    /\ ret = Bisected("nil", <<Diff(DELETE, <<"a", "b">>),
                               Diff(INSERT, <<"b", "a">>)>>, "break")

\* the first iteration of the search reads v1 where nothing was stored: a
\* call that has something to search and does not bail out at once panics
BisectFirstIteration ==
    /\ pc = "done"
    /\ BisectCall
    /\ Len(call.textA) + Len(call.textB) > 0
    /\ call.deadline.zero \/ call.deadline.passed > 0
    => ret.err = "panic"

----------------------------------------------------------------------------
(* The error of DiffCleanupMerge *)

MaxRun == 6

RunSegments ==
    {Diff(type, text) : type \in {DELETE, INSERT}, text \in {<<>>, <<"a">>}}

\* runs of up to MaxRun edits
RECURSIVE RunsOfLen(_)
RunsOfLen(n) ==
    IF n = 0 THEN {<<>>}
    ELSE {Append(run, d) : run \in RunsOfLen(n - 1), d \in RunSegments}

Runs == UNION {RunsOfLen(n) : n \in 1..MaxRun}

\* the edits of a run with an empty equality between each two of them
RECURSIVE Separated(_)
Separated(run) ==
    IF Len(run) <= 1 THEN run
    ELSE <<Head(run), Diff(EQUAL, <<>>)>> \o Separated(Tail(run))

\* a run of edits before an equality, as it is and with its edits separated
PropagateCalls ==
    {[fn |-> "DiffCleanupMerge",
      diffs |-> Append(run, Diff(EQUAL, <<"b">>))] : run \in Runs}
    \cup
    {[fn |-> "DiffCleanupMerge",
      diffs |-> Append(Separated(run), Diff(EQUAL, <<"b">>))] : run \in Runs}

InitPropagate == Start(PropagateCalls)

NextPropagate == CallDiffCleanupMerge

SpecPropagate == InitPropagate /\ [][NextPropagate]_vars

(* Properties of the error of DiffCleanupMerge *)

\* the call, in its first loop or in a rerun after its second loop, comes to
\* "Previous diff should have been an equality."
RECURSIVE MergeDetects(_, _)
MergeDetects(input, depth) ==
    LET first == MergeLoop(MergeState(Append(input, Diff(EQUAL, <<>>)),
                                      0, 0, 0, <<>>, <<>>, "nil"), MaxFuel)
        n == Len(first.diffs)
        trimmed == IF Len(first.diffs[n].Text) = 0
                   THEN Slice(first.diffs, 0, n - 1) ELSE first.diffs
        second == ShiftLoop(ShiftState(trimmed, 1, FALSE))
    IN IF first.err = "error" THEN TRUE
       ELSE IF first.err # "nil" \/ depth = 0 THEN FALSE
       ELSE second.changes /\ MergeDetects(second.diffs, depth - 1)

\* C20: a call of DiffCleanupMerge that comes to the invariant violation
\* returns the error and no script
ErrorPropagated ==
    /\ pc = "done"
    /\ call.fn = "DiffCleanupMerge"
    /\ MergeDetects(call.diffs, MaxFuel)
    => ret.err = "error" /\ ret.diffs = <<>>

\* the violation found in the first loop is returned
ErrorReturned ==
    /\ pc = "done"
    /\ call.fn = "DiffCleanupMerge"
    /\ MergeDetects(call.diffs, 0)
    => ret.err = "error" /\ ret.diffs = <<>>

----------------------------------------------------------------------------
(* DiffPrettyHtml *)

\* a character copied as it is
EscapeNothing(char) == <<char>>

\* html.EscapeString on one character: the five characters of its replacer
EscapeChar(char) ==
    CASE char = "&" -> <<"&", "a", "m", "p", ";">>
      [] char = "'" -> <<"&", "#", "3", "9", ";">>
      [] char = "<" -> <<"&", "l", "t", ";">>
      [] char = ">" -> <<"&", "g", "t", ";">>
      [] char = "\"" -> <<"&", "#", "3", "4", ";">>
      [] OTHER -> <<char>>

RECURSIVE EscapeString(_)
EscapeString(text) ==
    IF text = <<>> THEN <<>>
    ELSE EscapeChar(Head(text)) \o EscapeString(Tail(text))

\* strings.Replace(s, "\n", "&para;<br>", -1)
RECURSIVE ReplaceNewlines(_)
ReplaceNewlines(text) ==
    IF text = <<>> THEN <<>>
    ELSE (IF Head(text) = LF THEN <<"&", "p", "a", "r", "a", ";", "<", "b", "r", ">">> ELSE <<Head(text)>>)
           \o ReplaceNewlines(Tail(text))

InsOpen == <<"<", "i", "n", "s", " ", "s", "t", "y", "l", "e", "=", "\"", "b", "a", "c", "k", "g", "r", "o", "u", "n", "d", ":", "#", "e", "6", "f", "f", "e", "6", ";", "\"", ">">>
InsClose == <<"<", "/", "i", "n", "s", ">">>
DelOpen == <<"<", "d", "e", "l", " ", "s", "t", "y", "l", "e", "=", "\"", "b", "a", "c", "k", "g", "r", "o", "u", "n", "d", ":", "#", "f", "f", "e", "6", "e", "6", ";", "\"", ">">>
DelClose == <<"<", "/", "d", "e", "l", ">">>
SpanOpen == <<"<", "s", "p", "a", "n", ">">>
SpanClose == <<"<", "/", "s", "p", "a", "n", ">">>

\* what the loop of DiffPrettyHtml writes for one record
HtmlElement(diff) ==
    LET text == ReplaceNewlines(EscapeString(diff.Text))
    IN CASE diff.Type = INSERT -> InsOpen \o text \o InsClose
         [] diff.Type = DELETE -> DelOpen \o text \o DelClose
         [] diff.Type = EQUAL -> SpanOpen \o text \o SpanClose

RECURSIVE DiffPrettyHtml(_)
DiffPrettyHtml(diffs) ==
    IF diffs = <<>> THEN <<>>
    ELSE HtmlElement(Head(diffs)) \o DiffPrettyHtml(Tail(diffs))

(* Calls of DiffPrettyHtml *)

MaxHtmlText == 2
MaxHtmlSegs == 2

HtmlAlphabet == {"a", "&", "<", ">", LF, "'", "\""}

RECURSIVE HtmlTextsOfLen(_)
HtmlTextsOfLen(n) ==
    IF n = 0 THEN {<<>>}
    ELSE {Append(text, char) : text \in HtmlTextsOfLen(n - 1),
                               char \in HtmlAlphabet}

HtmlTexts == UNION {HtmlTextsOfLen(n) : n \in 0..MaxHtmlText}

\* scripts of records of one character
RECURSIVE HtmlScriptsOfLen(_)
HtmlScriptsOfLen(n) ==
    IF n = 0 THEN {<<>>}
    ELSE {Append(script, Diff(type, <<char>>)) :
            script \in HtmlScriptsOfLen(n - 1),
            type \in Operation, char \in HtmlAlphabet}

\* the script of TestDiffPrettyHtml
TestHtmlScript ==
    <<Diff(EQUAL, <<"a", LF>>),
      Diff(DELETE, <<"<", "B", ">", "b", "<", "/", "B", ">">>),
      Diff(INSERT, <<"c", "&", "d">>)>>

HtmlCalls ==
    {[fn |-> "DiffPrettyHtml", diffs |-> diffs] :
        diffs \in {<<Diff(type, text)>> : type \in Operation, text \in HtmlTexts}
                    \cup UNION {HtmlScriptsOfLen(n) : n \in 0..MaxHtmlSegs}
                    \cup {TestHtmlScript}}

CallDiffPrettyHtml ==
    /\ pc = "ready"
    /\ call.fn = "DiffPrettyHtml"
    /\ Return(Text(DiffPrettyHtml(call.diffs)))

InitHtml == Start(HtmlCalls)

NextHtml == CallDiffPrettyHtml

SpecHtml == InitHtml /\ [][NextHtml]_vars

(* Properties of DiffPrettyHtml *)

HtmlCall == call.fn = "DiffPrettyHtml"

\* the text of a record with each character replaced as the table says
RECURSIVE Replaced(_, _)
Replaced(text, table) ==
    IF text = <<>> THEN <<>>
    ELSE (IF Head(text) \in DOMAIN table
          THEN table[Head(text)] ELSE <<Head(text)>>)
           \o Replaced(Tail(text), table)

\* the elements of the records, in order, with the texts replaced by the table
RECURSIVE Rendered(_, _)
Rendered(diffs, table) ==
    IF diffs = <<>> THEN <<>>
    ELSE LET diff == Head(diffs)
             text == Replaced(diff.Text, table)
         IN (CASE diff.Type = INSERT -> InsOpen \o text \o InsClose
               [] diff.Type = DELETE -> DelOpen \o text \o DelClose
               [] diff.Type = EQUAL -> SpanOpen \o text \o SpanClose)
              \o Rendered(Tail(diffs), table)

ThreeEscapes ==
    [char \in {"&", "<", ">", LF} |->
        CASE char = "&" -> <<"&", "a", "m", "p", ";">>
          [] char = "<" -> <<"&", "l", "t", ";">>
          [] char = ">" -> <<"&", "g", "t", ";">>
          [] char = LF -> <<"&", "p", "a", "r", "a", ";", "<", "b", "r", ">">>]

FiveEscapes ==
    [char \in {"&", "<", ">", LF, "'", "\""} |->
        CASE char = "&" -> <<"&", "a", "m", "p", ";">>
          [] char = "<" -> <<"&", "l", "t", ";">>
          [] char = ">" -> <<"&", "g", "t", ";">>
          [] char = LF -> <<"&", "p", "a", "r", "a", ";", "<", "b", "r", ">">>
          [] char = "'" -> <<"&", "#", "3", "9", ";">>
          [] char = "\"" -> <<"&", "#", "3", "4", ";">>]

\* C21 as stated: the result is the elements of the records in order, with
\* &, <, > and the newline replaced and every other character copied
PrettyHtmlThreeEscapes ==
    pc = "done" /\ HtmlCall => ret.text = Rendered(call.diffs, ThreeEscapes)

\* C21: the result is the elements of the records in order, with &, <, >,
\* the two quotes and the newline replaced and every other character copied
PrettyHtml ==
    pc = "done" /\ HtmlCall => ret.text = Rendered(call.diffs, FiveEscapes)

PrettyHtmlWitness ==
    /\ pc = "done"
    /\ HtmlCall
    /\ call.diffs = TestHtmlScript
    /\ ret.text = SpanOpen \o <<"a">> \o <<"&", "p", "a", "r", "a", ";", "<", "b", "r", ">">> \o SpanClose
                    \o DelOpen \o <<"&", "l", "t", ";", "B", "&", "g", "t", ";", "b", "&", "l", "t", ";", "/", "B", "&", "g", "t", ";">> \o DelClose
                    \o InsOpen \o <<"c">> \o <<"&", "a", "m", "p", ";">> \o <<"d">> \o InsClose

----------------------------------------------------------------------------
(* Code points *)

\* C22: every index the core uses on a text is an index of a code point:
\* DiffCharsToLines looks up one line for each symbol of a segment, the
\* line that the symbol names, and no lookup is out of range
CodePointSafety ==
    pc = "done" /\ call.fn = "DiffCharsToLines" =>
        /\ ret.err = "nil"
        /\ \A k \in 1..Len(call.coded) :
              /\ Len(ret.diffs[k].Text) = Len(call.coded[k].Runes)
              /\ \A j \in 1..Len(call.coded[k].Runes) :
                    ret.diffs[k].Text[j] = call.coded[k].Runes[j]

----------------------------------------------------------------------------
(* Calls of DiffCompute *)

ComputeCalls ==
    {[fn |-> "DiffCompute", Diff_Timeout |-> t, textA |-> a, textB |-> b,
      checklines |-> c] :
        t \in Timeouts, a \in Texts(MaxText), b \in Texts(MaxText),
        c \in BOOLEAN}

CallDiffCompute ==
    /\ pc = "ready"
    /\ call.fn = "DiffCompute"
    /\ Return(DiffCompute(call.Diff_Timeout, call.textA, call.textB,
                          call.checklines))

InitCompute == Start(ComputeCalls)

NextCompute == CallDiffCompute

SpecCompute == InitCompute /\ [][NextCompute]_vars

(* Properties of DiffCompute *)

ComputeCall == call.fn = "DiffCompute"

\* short stands in long at the 0-based position i
OccursAt(long, short, i) ==
    /\ i + Len(short) <= Len(long)
    /\ Slice(long, i, i + Len(short)) = short

\* C23: for non-empty texts with no common prefix and no common suffix, of
\* which the shorter stands inside the longer,
\* DiffCompute returns the part of the longer text before an occurrence,
\* the shorter text as an equality, and the part after it, the two parts
\* deleted when textA is the longer text and inserted otherwise
ContainmentShortcut ==
    LET a == call.textA
        b == call.textB
        long == IF Len(a) > Len(b) THEN a ELSE b
        short == IF Len(a) > Len(b) THEN b ELSE a
        op == IF Len(a) > Len(b) THEN DELETE ELSE INSERT
    IN /\ pc = "done"
       /\ ComputeCall
       /\ a # <<>>
       /\ b # <<>>
       /\ a[1] # b[1]                  \* no common prefix
       /\ a[Len(a)] # b[Len(b)]        \* no common suffix
       /\ Index(long, short) # -1
       => \E i \in 0..Len(long) :
             /\ OccursAt(long, short, i)
             /\ ret = Ok(<<Diff(op, Slice(long, 0, i)),
                           Diff(EQUAL, short),
                           Diff(op, Slice(long, i + Len(short), Len(long)))>>)

----------------------------------------------------------------------------
(* The equality walk of DiffCleanupSemantic *)

\* the walk comes to an edit after a non-empty equality that is no longer
\* than the edit before it and no longer than this edit
Eliminates(diffs) ==
    /\ Len(diffs) >= 3
    /\ diffs[1].Type # EQUAL
    /\ diffs[2].Type = EQUAL
    /\ diffs[3].Type # EQUAL
    /\ Len(diffs[2].Text) > 0
    /\ Len(diffs[2].Text) <= Len(diffs[1].Text)
    /\ Len(diffs[2].Text) <= Len(diffs[3].Text)

\* C24: where the walk eliminates an equality, it is replaced by a DELETE
\* and an INSERT of its text and nothing else changes: the call returns, no
\* index outside the script is touched, and the source and the target text
\* of the script are preserved
SemanticElimination ==
    pc = "done" /\ SemanticCall /\ Eliminates(call.diffs) =>
        /\ ret.err = "nil"
        /\ DiffTextSource(ret.diffs) = DiffTextSource(call.diffs)
        /\ DiffTextResult(ret.diffs) = DiffTextResult(call.diffs)

----------------------------------------------------------------------------
(* Calls of DiffCleanupSemanticScore *)

MaxScoreText == 3

ScoreAlphabet == {"a", ".", " ", LF, CR}

RECURSIVE ScoreTextsOfLen(_)
ScoreTextsOfLen(n) ==
    IF n = 0 THEN {<<>>}
    ELSE {Append(text, char) : text \in ScoreTextsOfLen(n - 1),
                               char \in ScoreAlphabet}

ScoreTexts == UNION {ScoreTextsOfLen(n) : n \in 0..MaxScoreText}

ScoreCalls ==
    {[fn |-> "DiffCleanupSemanticScore", one |-> one, two |-> two] :
        one \in {text \in ScoreTexts : Len(text) < MaxScoreText},
        two \in ScoreTexts}

CallDiffCleanupSemanticScore ==
    /\ pc = "ready"
    /\ call.fn = "DiffCleanupSemanticScore"
    /\ Return(Length(DiffCleanupSemanticScore(call.one, call.two)))

InitScore == Start(ScoreCalls)

NextScore == CallDiffCleanupSemanticScore

SpecScore == InitScore /\ [][NextScore]_vars

(* Properties of DiffCleanupSemanticScore *)

\* a text that begins with a blank line, ^\r?\n\r?\n
BlanklineStart(text) ==
    \E start \in {<<LF, LF>>, <<CR, LF, LF>>, <<LF, CR, LF>>,
                  <<CR, LF, CR, LF>>} : HasPrefix(text, start)

\* the ladder of scores of a boundary
Ladder(one, two) ==
    LET last == one[Len(one)]
        first == two[1]
    IN IF Len(one) = 0 \/ Len(two) = 0 THEN 6
       ELSE IF BlanklineEnd(one) \/ BlanklineStart(two) THEN 5
       ELSE IF last \in Linebreaks \/ first \in Linebreaks THEN 4
       ELSE IF /\ last \notin AlphaNumerics
               /\ last \notin Whitespaces
               /\ first \in Whitespaces
       THEN 3
       ELSE IF last \in Whitespaces \/ first \in Whitespaces THEN 2
       ELSE IF last \notin AlphaNumerics \/ first \notin AlphaNumerics THEN 1
       ELSE 0

\* C26: the score of a boundary is 6 at an empty text, else 5 where one
\* ends with a blank line or two begins with one, else 4 at a line break,
\* else 3 at the end of a sentence, else 2 at whitespace, else 1 at a
\* non-alphanumeric character, else 0
ScoreLadder ==
    pc = "done" /\ call.fn = "DiffCleanupSemanticScore" =>
        ret = Length(Ladder(call.one, call.two))

----------------------------------------------------------------------------
(* The stripping of DiffMainDeadline *)

Stripped(err, commonPrefix, textChoppedA, textChoppedB, commonSuffix) ==
    [err |-> err, commonPrefix |-> commonPrefix,
     textChoppedA |-> textChoppedA, textChoppedB |-> textChoppedB,
     commonSuffix |-> commonSuffix]

\* DiffMainDeadline from "Trim off common prefix" to the call of
\* DiffCompute: the prefix and the suffix it holds and the two texts it
\* hands to DiffCompute
DiffMainStrip(inputA, inputB) ==
    LET prefixLength == DiffCommonPrefix(inputA, inputB)
        commonPrefix == Slice(inputA, 0, prefixLength)
        choppedA == Slice(inputA, prefixLength, Len(inputA))
        choppedB == Slice(inputB, prefixLength, Len(inputB))
        suffixLength == DiffCommonSuffix(choppedA, choppedB)
        cutA == Len(inputA) - suffixLength
        cutB == Len(inputB) - suffixLength
    IN IF cutA > Len(choppedA)    \* textChoppedA[len(inputA)-commonLength:]
       THEN Stripped("panic", <<>>, <<>>, <<>>, <<>>)
       ELSE Stripped("nil", commonPrefix, Slice(choppedA, 0, cutA),
                     Slice(choppedB, 0, cutB),
                     Slice(choppedA, cutA, Len(choppedA)))

(* Properties of the stripping *)

\* the length of the longest common prefix, and of the longest common suffix
PrefixLength(a, b) ==
    CHOOSE n \in 0..Min(Len(a), Len(b)) :
        /\ Slice(a, 0, n) = Slice(b, 0, n)
        /\ n < Min(Len(a), Len(b)) => a[n + 1] # b[n + 1]

SuffixLength(a, b) ==
    CHOOSE n \in 0..Min(Len(a), Len(b)) :
        /\ Slice(a, Len(a) - n, Len(a)) = Slice(b, Len(b) - n, Len(b))
        /\ n < Min(Len(a), Len(b)) => a[Len(a) - n] # b[Len(b) - n]

\* C27: for different texts DiffMainDeadline slices no text outside its
\* bounds, holds the common prefix and the common suffix of what is left
\* after it, and hands to DiffCompute what lies between them in each text
StripExact ==
    LET a == call.inputA
        b == call.inputB
        p == PrefixLength(a, b)
        s == SuffixLength(Slice(a, p, Len(a)), Slice(b, p, Len(b)))
        st == DiffMainStrip(a, b)
    IN pc = "done" /\ DiffCall /\ a # b =>
          /\ ret.err # "panic"
          /\ st = Stripped("nil", Slice(a, 0, p),
                           Slice(a, p, Len(a) - s), Slice(b, p, Len(b) - s),
                           Slice(a, Len(a) - s, Len(a)))

----------------------------------------------------------------------------
(* The search of DiffBisect_ *)

\* C28: with no deadline and two non-empty texts, every index DiffBisect_
\* uses on v1, v2 and the texts is in range, and the call ends with the
\* split of DiffBisectSplit or with [DELETE textA, INSERT textB]
BisectInRange ==
    /\ pc = "done"
    /\ BisectCall
    /\ call.deadline.zero
    /\ call.textA # <<>>
    /\ call.textB # <<>>
    => /\ ret.left # "panic"
       /\ \/ ret.left = "split"
          \/ ret.left = "end"
               /\ ret.diffs = <<Diff(DELETE, call.textA),
                                Diff(INSERT, call.textB)>>

----------------------------------------------------------------------------
(* The search of DiffHalfMatchI *)

\* C30: the loop of DiffHalfMatchI over the occurrences of the seed comes to
\* no search position twice and ends, so DiffHalfMatch returns
HalfMatchTerminates ==
    pc = "done" /\ HalfCall => ret.err # "diverges"

----------------------------------------------------------------------------
(* DiffLineMode: the diff of the line encodings, decoded and cleaned, and  *)
(* then the walk that re-diffs every replacement block by characters       *)

\* the locals of the walk of DiffLineMode
LineModeState(diffs, pointer, count_delete, count_insert, text_delete, text_insert) ==
    [err |-> "nil", diffs |-> diffs, pointer |-> pointer,
     count_delete |-> count_delete, count_insert |-> count_insert,
     text_delete |-> text_delete, text_insert |-> text_insert]

\* the test of the EQUAL case: a run of both kinds stands before the pointer
Rediff(st) ==
    /\ st.diffs[st.pointer + 1].Type = EQUAL
    /\ st.count_delete >= 1
    /\ st.count_insert >= 1

\* the body of the EQUAL case.  The run is cut out and the pointer set back
\* to where it began; the segments of the new diff are appended to diffs,
\* behind everything that was left, the pointer going up by one for each.
LineModeRediff(Diff_Timeout, st) ==
    LET start == st.pointer - st.count_delete - st.count_insert
        endDiffs == Slice(st.diffs, st.pointer, Len(st.diffs))
    IN IF start < 0 THEN [st EXCEPT !.err = "panic"]
       ELSE Only({
            IF newDiffs.err # "nil" THEN [st EXCEPT !.err = newDiffs.err]
            ELSE LineModeState(
                   Slice(st.diffs, 0, start) \o endDiffs \o newDiffs.diffs,
                   start + Len(newDiffs.diffs), 0, 0, <<>>, <<>>)
            : newDiffs \in {DiffMainDeadline(Diff_Timeout, st.text_delete,
                                             st.text_insert, FALSE)}})

\* one iteration of the walk: the switch on diffs[pointer].Type.  No case
\* moves the pointer on; only the re-diff changes it.
LineModeStep(Diff_Timeout, st) ==
    LET diff == st.diffs[st.pointer + 1]
    IN IF diff.Type = INSERT
       THEN [st EXCEPT !.count_insert = @ + 1, !.text_insert = @ \o diff.Text]
       ELSE IF diff.Type = DELETE
       THEN [st EXCEPT !.count_delete = @ + 1, !.text_delete = @ \o diff.Text]
       ELSE IF Rediff(st) THEN LineModeRediff(Diff_Timeout, st)
       ELSE st

\* "for pointer < len(diffs)".  An iteration other than a re-diff leaves
\* diffs and pointer as they were, so every later iteration takes the same
\* case of the switch and the walk does not end: "diverges".
RECURSIVE LineModeLoop(_, _, _)
LineModeLoop(Diff_Timeout, st, fuel) ==
    IF ~(st.pointer < Len(st.diffs)) THEN st
    ELSE IF fuel = 0 THEN [st EXCEPT !.err = "cutoff"]
    ELSE Only({
         IF next.err # "nil" THEN next
         ELSE IF ~Rediff(st) /\ next.pointer = st.pointer
                 /\ next.diffs = st.diffs
         THEN [next EXCEPT !.err = "diverges"]
         ELSE LineModeLoop(Diff_Timeout, next, fuel - 1)
         : next \in {LineModeStep(Diff_Timeout, st)}})

\* the walk from its first position, over the script and the dummy entry
\* appended to it, and the removal of the last entry after it
LineModeWalk(Diff_Timeout, diffs) ==
    Only({IF walked.err # "nil" THEN Failed(walked.err)
          ELSE Ok(Slice(walked.diffs, 0, Len(walked.diffs) - 1))
          : walked \in {LineModeLoop(Diff_Timeout,
                           LineModeState(Append(diffs, Diff(EQUAL, <<>>)),
                                         0, 0, 0, <<>>, <<>>),
                           MaxFuel)}})

\* the texts of a script of symbols as strings: Diff{op, string(runes)}
StringDiffs(diffs) ==
    [k \in 1..Len(diffs) |-> Diff(diffs[k].Type, Utf8(diffs[k].Text))]

\* DiffLineMode
DiffLineMode(Diff_Timeout, textA, textB) ==
    Only({
    IF encoded.err # "nil" THEN Failed(encoded.err)
    ELSE Only({
         IF coded.err # "nil" THEN coded
         ELSE Only({
              IF decoded.err # "nil" THEN decoded
              ELSE Only({
                   IF cleaned.err # "nil" THEN Failed(cleaned.err)
                   ELSE LineModeWalk(Diff_Timeout, cleaned.diffs)
                   : cleaned \in {DiffCleanupSemantic(decoded.diffs)}})
              : decoded \in {DiffCharsToLines(StringDiffs(coded.diffs),
                                              encoded.lineArray)}})
         : coded \in {DiffMainDeadline(Diff_Timeout, encoded.chars1,
                                       encoded.chars2, FALSE)}})
    : encoded \in {DiffLinesToChars(textA, textB)}})

(* Calls of DiffLineMode *)

\* the texts of the calls: the line texts short of the longest
LineModeTexts == {text \in LineTexts : Len(text) < MaxLineText}

LineModeCalls ==
    {[fn |-> "DiffLineMode", Diff_Timeout |-> t, textA |-> a, textB |-> b] :
        t \in Timeouts, a \in LineModeTexts, b \in LineModeTexts}

CallDiffLineMode ==
    /\ pc = "ready"
    /\ call.fn = "DiffLineMode"
    /\ Return(DiffLineMode(call.Diff_Timeout, call.textA, call.textB))

InitLineMode == Start(LineModeCalls)

NextLineMode == CallDiffLineMode

SpecLineMode == InitLineMode /\ [][NextLineMode]_vars

LineModeCall == call.fn = "DiffLineMode"

\* C29: the walk of DiffLineMode goes past every segment, comes to the end
\* of the script after the dummy entry, and DiffLineMode returns
LineModeWalkEnds ==
    pc = "done" /\ LineModeCall => ret.err # "diverges"

\* C25: DiffLineMode puts the character diff of every replacement block in
\* the place of the block, before the EQUAL that follows it, so the script
\* it returns round-trips the two texts
LineModeSplice ==
    pc = "done" /\ LineModeCall =>
        /\ ret.err = "nil"
        /\ DiffTextSource(ret.diffs) = call.textA
        /\ DiffTextResult(ret.diffs) = call.textB

\* the walk at the EQUAL that follows a replacement block of the two texts
\* of the call: [DELETE textA, INSERT textB, EQUAL ""], pointer = 2
AfterBlock ==
    LineModeState(<<Diff(DELETE, call.textA), Diff(INSERT, call.textB),
                    Diff(EQUAL, <<>>)>>,
                  2, 1, 1, call.textA, call.textB)

\* The re-diff of such a block leaves the EQUAL first and the new segments
\* behind it, the pointer having gone up by their number.
RediffAtEnd ==
    LineModeCall =>
        LET next == LineModeStep(call.Diff_Timeout, AfterBlock)
        IN next.err = "nil" =>
              /\ Rediff(AfterBlock)
              /\ next.diffs[1] = Diff(EQUAL, <<>>)
              /\ next.pointer = Len(next.diffs) - 1
====
